---- MODULE Spec2Model ----
(***************************************************************************)
(* A model of the NervaPy ARM function builder                             *)
(* (src/nervapy/arm/function.py): the active-function slot and the         *)
(* with-scope protocol of Function, the ABI placement of arguments, the    *)
(* stack frame with its prologue/epilogue, and the ARMv7-M stack-alignment *)
(* validator that runs when a build scope is left.                         *)
(***************************************************************************)
EXTENDS Integers, Sequences, FiniteSets, TLC

VARIABLES
    active_function,       \* nervapy.arm.function.active_function: 0 is None, else a Function
    active_stream,         \* nervapy.stream.active_stream: 0 is None, else a Function, AltStream
    pc,                    \* per Function: where its life stands
    config,                \* per Function: the attributes __init__ stores
    arguments,             \* per Function: self.arguments, a tuple of Argument objects
    argument,              \* the Argument objects: size, register, stack_offset
    instructions,          \* per Function: self.instructions
    stack_frame,           \* per Function: self.stack_frame
    prologue_instructions, \* per Function: local of generate_prolog_and_epilog
    epilogue_instructions, \* per Function: local of generate_prolog_and_epilog
    raised,                \* per Function: the exception that left its with-scope
    analysis,              \* per Function: what liveness analysis and allocation recorded
    emitted,               \* per Function: the text its assembly property returned last
    last_call              \* the operation performed last and whether it raised

vars == <<active_function, active_stream, pc, config, arguments, argument,
          instructions, stack_frame, prologue_instructions,
          epilogue_instructions, raised, analysis, emitted, last_call>>

(***************************************************************************)
(* Bounds of the model.                                                    *)
(***************************************************************************)
NumFunctions == 2        \* Function objects of the scope-protocol specification
MaxFlowBody == 5         \* body length in the control-flow specification
MaxAllocBody == 4        \* body length in the register-allocation specification
MaxPruneBody == 5        \* body length in the live-physical-register specification
MaxExhaustBody == 3      \* body length in the no-option specification
MaxEmitBody == 3         \* body length in the emitter specification
MaxArchBody == 2         \* body length in the architecture-directive specification
MaxInstructions == 2     \* body length in the scope-protocol specification
MaxAlignBody == 3        \* body length in the alignment specification
MaxFrameBody == 3        \* body length in the stack-frame specification
MaxArguments == 6        \* Argument objects in the argument specification

None == 0
AltStream == NumFunctions + 1
Functions == 1..NumFunctions

(***************************************************************************)
(* Registers.  A register is a record of its bank and physical number.     *)
(***************************************************************************)
GeneralPurposeRegister(n) == [type |-> "GP", number |-> n]
DRegister(n) == [type |-> "D", number |-> n]
SRegister(n) == [type |-> "S", number |-> n]
QRegister(n) == [type |-> "Q", number |-> n]

\* virtual registers are numbered from 0x40 on (Function.virtual_registers_count)
is_virtual(reg) == reg.number >= 64

r0 == GeneralPurposeRegister(0)
r1 == GeneralPurposeRegister(1)
r2 == GeneralPurposeRegister(2)
r3 == GeneralPurposeRegister(3)
r4 == GeneralPurposeRegister(4)
r5 == GeneralPurposeRegister(5)
r7 == GeneralPurposeRegister(7)
r8 == GeneralPurposeRegister(8)
r11 == GeneralPurposeRegister(11)
sp == GeneralPurposeRegister(13)
lr == GeneralPurposeRegister(14)
d0 == DRegister(0)
d8 == DRegister(8)
d9 == DRegister(9)

get_physical_number(reg) == reg.number

\* abi.callee_save_registers of arm_gnueabi and arm_gnueabihf: r4-r11, d8-d15
callee_save_registers ==
    {GeneralPurposeRegister(n) : n \in 4..11} \cup {DRegister(n) : n \in 8..15}

(***************************************************************************)
(* Targets.  A microarchitecture is its name and its extension set.        *)
(***************************************************************************)
CortexM4 == [name |-> "CortexM4", extensions |-> {"V7M", "Thumb2", "Div", "DSP", "VFP3"}]
CortexA9 == [name |-> "CortexA9", extensions |-> {"V7", "V7MP", "Thumb2", "VFP3", "NEON"}]
Targets == {CortexM4, CortexA9}

AssemblyFormats == {"GAS", "ARMCC"}
HighRegisterStrategies == {"PUSH_W", "STMDB", "AUTO"}
ABIs == {"arm_gnueabi", "arm_gnueabihf"}

(***************************************************************************)
(* Instructions.  Operands and instructions are records; an absent         *)
(* attribute is the empty sequence.                                        *)
(***************************************************************************)
RegisterOperand(reg) ==
    [register |-> <<reg>>, immediate |-> <<>>, registers |-> <<>>, label |-> ""]
ImmediateOperand(n) ==
    [register |-> <<>>, immediate |-> <<n>>, registers |-> <<>>, label |-> ""]
RegisterListOperand(regs) ==
    [register |-> <<>>, immediate |-> <<>>, registers |-> regs, label |-> ""]
LabelOperand(l) ==
    [register |-> <<>>, immediate |-> <<>>, registers |-> <<>>, label |-> l]

get_registers_list(operand) == operand.registers

Range(s) == {s[i] : i \in DOMAIN s}

\* the element of a set of one element: {e(x) : x \in {v}} is e of the
\* value v, computed once
Only(S) == CHOOSE x \in S : TRUE

Instruction(class, name, operands, writeback, outputs, extensions) ==
    [kind |-> "Instruction", class |-> class, name |-> name, operands |-> operands,
     writeback |-> writeback, outputs |-> outputs, isa_extensions |-> extensions]

LabelQuasiInstruction(name) ==
    [kind |-> "Label", class |-> "LabelQuasiInstruction", name |-> name,
     operands |-> <<LabelOperand(name)>>, writeback |-> FALSE, outputs |-> <<>>,
     isa_extensions |-> {}]

PUSH(regs) ==
    Instruction("PushPopInstruction", "PUSH", <<RegisterListOperand(regs)>>, FALSE, <<sp>>, {})
PUSH_W(regs) ==
    Instruction("PushPopInstruction", "PUSH.W", <<RegisterListOperand(regs)>>, FALSE, <<sp>>,
                {"Thumb2"})
POP(regs) ==
    Instruction("PushPopInstruction", "POP", <<RegisterListOperand(regs)>>, FALSE,
                <<sp>> \o regs, {})
POP_W(regs) ==
    Instruction("PushPopInstruction", "POP.W", <<RegisterListOperand(regs)>>, FALSE,
                <<sp>> \o regs, {"Thumb2"})
STMDB(base, regs) ==
    Instruction("StoreMultipleInstruction", "STMDB",
                <<RegisterOperand(base), RegisterListOperand(regs)>>, TRUE, <<base>>, {})
LDMIA(base, regs) ==
    Instruction("StoreMultipleInstruction", "LDMIA",
                <<RegisterOperand(base), RegisterListOperand(regs)>>, TRUE,
                <<base>> \o regs, {})
VPUSH(regs) ==
    Instruction("VfpNeonPushPopInstruction", "VPUSH", <<RegisterListOperand(regs)>>, FALSE,
                <<sp>>, {"VFP3"})
VPOP(regs) ==
    Instruction("VfpNeonPushPopInstruction", "VPOP", <<RegisterListOperand(regs)>>, FALSE,
                <<sp>> \o regs, {"VFP3"})
SUB(dst, src, imm) ==
    Instruction("ArithmeticInstruction", "SUB",
                <<RegisterOperand(dst), RegisterOperand(src), ImmediateOperand(imm)>>,
                FALSE, <<dst>>, {})
ADD(dst, src, imm) ==
    Instruction("ArithmeticInstruction", "ADD",
                <<RegisterOperand(dst), RegisterOperand(src), ImmediateOperand(imm)>>,
                FALSE, <<dst>>, {})
MOV(dst, imm) ==
    Instruction("MovInstruction", "MOV", <<RegisterOperand(dst), ImmediateOperand(imm)>>,
                FALSE, <<dst>>, {})
\* MOV with a register as its second operand
MOV_register(dst, src) ==
    Instruction("MovInstruction", "MOV", <<RegisterOperand(dst), RegisterOperand(src)>>,
                FALSE, <<dst>>, {})
VMOV(dst, src) ==
    Instruction("VfpNeonMovInstruction", "VMOV", <<RegisterOperand(dst), RegisterOperand(src)>>,
                FALSE, <<dst>>, {"VFP3"})
SDIV(dst, src) ==
    Instruction("ArithmeticInstruction", "SDIV", <<RegisterOperand(dst), RegisterOperand(src)>>,
                FALSE, <<dst>>, {"Div"})
BL(l) ==
    Instruction("BranchWithLinkInstruction", "BL", <<LabelOperand(l)>>, FALSE, <<lr>>, {})
BLX(reg) ==
    Instruction("BranchLinkExchangeInstruction", "BLX", <<RegisterOperand(reg)>>, FALSE, <<lr>>, {})
BX(reg) ==
    Instruction("BranchExchangeInstruction", "BX", <<RegisterOperand(reg)>>, FALSE, <<>>, {})

\* branches to a label: B is unconditional, BNE and BEQ are conditional
B(l) == Instruction("BranchInstruction", "B", <<LabelOperand(l)>>, FALSE, <<>>, {})
BNE(l) == Instruction("BranchInstruction", "BNE", <<LabelOperand(l)>>, FALSE, <<>>, {})
BEQ(l) == Instruction("BranchInstruction", "BEQ", <<LabelOperand(l)>>, FALSE, <<>>, {})

is_BranchInstruction(instruction) == instruction.class = "BranchInstruction"
is_conditional(instruction) == instruction.name # "B"

\* Instruction.get_input_registers_list: the registers an instruction reads
get_input_registers_list(instruction) ==
    LET ops == instruction.operands
    IN CASE instruction.class \in {"MovInstruction", "VfpNeonMovInstruction"} ->
                ops[2].register
         [] instruction.class = "ArithmeticInstruction" ->
                ops[2].register \o (IF Len(ops) >= 3 THEN ops[3].register ELSE <<>>)
         [] instruction.class = "VfpNeonInstruction" ->
                IF Len(ops) >= 3 THEN ops[2].register \o ops[3].register ELSE ops[2].register
         [] instruction.class = "NeonLoadStoreInstruction" ->
                IF instruction.name = "VST1"
                THEN ops[1].registers \o ops[2].register ELSE ops[2].register
         [] instruction.class \in {"BranchExchangeInstruction",
                                   "BranchLinkExchangeInstruction"} -> ops[1].register
         [] instruction.class \in {"PushPopInstruction", "VfpNeonPushPopInstruction"} ->
                IF instruction.name \in {"PUSH", "PUSH.W", "VPUSH"}
                THEN <<sp>> \o ops[1].registers ELSE <<sp>>
         [] instruction.class = "StoreMultipleInstruction" ->
                IF instruction.name = "STMDB"
                THEN ops[1].register \o ops[2].registers ELSE ops[1].register
         [] OTHER -> <<>>

get_output_registers_list(instruction) == instruction.outputs

\* NEON and VFP instructions over virtual registers: VMOV.I32 writes dst,
\* VADDW reads a Q and a D register, VLD1 and VST1 take a register list
VMOV_I32(dst, imm) ==
    Instruction("VfpNeonInstruction", "VMOV.I32", <<RegisterOperand(dst), ImmediateOperand(imm)>>,
                FALSE, <<dst>>, {"NEON"})
VADDW(dst, src, wide) ==
    Instruction("VfpNeonInstruction", "VADDW",
                <<RegisterOperand(dst), RegisterOperand(src), RegisterOperand(wide)>>,
                FALSE, <<dst>>, {"NEON"})
VLD1(regs, base) ==
    Instruction("NeonLoadStoreInstruction", "VLD1",
                <<RegisterListOperand(regs), RegisterOperand(base)>>, FALSE, regs, {"NEON"})
VST1(regs, base) ==
    Instruction("NeonLoadStoreInstruction", "VST1",
                <<RegisterListOperand(regs), RegisterOperand(base)>>, FALSE, <<>>, {"NEON"})

\* the RETURN pseudo-instruction and what decomposition turns it into
ReturnInstruction ==
    [kind |-> "Instruction", class |-> "ReturnInstruction", name |-> "RETURN",
     operands |-> <<>>, writeback |-> FALSE, outputs |-> <<>>, isa_extensions |-> {}]
to_instruction_list(instruction) == <<BX(lr)>>

is_Instruction(instruction) == instruction.kind = "Instruction"
is_LabelQuasiInstruction(instruction) == instruction.class = "LabelQuasiInstruction"

(***************************************************************************)
(* Argument placement of Function.__init__.                                *)
(***************************************************************************)
NoLocation == [register |-> <<>>, stack_offset |-> <<>>]

argument_registers == <<r0, r1, r2, r3>>

\* as even_register_offset, rounding down instead of up
even_register_offset_below(register_offset) ==
    IF register_offset % 2 = 1 THEN register_offset - 1 ELSE register_offset

\* lines 79-80: the first register of a pair has an even index
even_register_offset(register_offset) ==
    IF register_offset % 2 = 1 THEN register_offset + 1 ELSE register_offset

\* as aligned_stack_offset, without the padding
unaligned_stack_offset(stack_offset) == stack_offset

\* lines 85-86: an 8-byte stack slot starts at a multiple of 8
aligned_stack_offset(stack_offset) ==
    IF stack_offset % 8 = 4 THEN stack_offset + 4 ELSE stack_offset

\* The loop over self.arguments of lines 69-90: objs is the Argument objects as
\* assigned so far; the result says whether the loop raised ValueError.
RECURSIVE assign_argument_locations(_, _, _, _, _)
assign_argument_locations(args, i, register_offset, stack_offset, objs) ==
    IF i > Len(args) THEN [raised |-> FALSE, argument |-> objs]
    ELSE LET a == args[i]
             size == objs[a].size
         IN IF size <= 4
            THEN IF register_offset < 4
                 THEN assign_argument_locations(args, i + 1, register_offset + 1, stack_offset,
                          [objs EXCEPT ![a].register = <<argument_registers[register_offset + 1]>>])
                 ELSE assign_argument_locations(args, i + 1, register_offset, stack_offset + 4,
                          [objs EXCEPT ![a].stack_offset = <<stack_offset>>])
            ELSE IF size = 8
            THEN LET even_offset == even_register_offset(register_offset)
                 IN IF even_offset < 4
                    THEN assign_argument_locations(args, i + 1, even_offset + 2, stack_offset,
                             [objs EXCEPT ![a].register =
                                 <<argument_registers[even_offset + 1],
                                   argument_registers[even_offset + 2]>>])
                    ELSE LET aligned == aligned_stack_offset(stack_offset)
                         IN assign_argument_locations(args, i + 1, even_offset, aligned + 8,
                                [objs EXCEPT ![a].stack_offset = <<aligned>>])
            ELSE [raised |-> TRUE, argument |-> objs]

\* Lines 42-44 reset every argument of the list, then lines 59-92 place them.
place_arguments(args, abi, objs) ==
    LET reset == [a \in DOMAIN objs |->
                    IF a \in Range(args)
                    THEN [objs[a] EXCEPT !.register = <<>>, !.stack_offset = <<>>]
                    ELSE objs[a]]
    IN IF abi \in {"arm_gnueabi", "arm_gnueabihf"}
       THEN assign_argument_locations(args, 1, 0, 0, reset)
       ELSE [raised |-> TRUE, argument |-> reset]

(***************************************************************************)
(* StackFrame.                                                             *)
(***************************************************************************)
StackFrame == [general_purpose_registers |-> <<>>, d_registers |-> <<>>]

preserve_register(frame, register) ==
    IF register.type = "GP"
    THEN IF register \notin Range(frame.general_purpose_registers)
            /\ register \in callee_save_registers
         THEN [frame EXCEPT !.general_purpose_registers = Append(@, register)]
         ELSE frame
    ELSE IF register.type = "S"
    THEN LET parent == DRegister(register.number \div 2)
         IN IF ~is_virtual(register) /\ parent \notin Range(frame.d_registers)
               /\ parent \in callee_save_registers
            THEN [frame EXCEPT !.d_registers = Append(@, parent)]
            ELSE frame
    ELSE IF register.type = "Q"
    THEN LET d_low == DRegister(2 * register.number)
             d_high == DRegister(2 * register.number + 1)
             low == IF d_low \notin Range(frame.d_registers)
                       /\ register \in callee_save_registers
                    THEN [frame EXCEPT !.d_registers = Append(@, d_low)]
                    ELSE frame
         IN IF d_high \notin Range(low.d_registers) /\ register \in callee_save_registers
            THEN [low EXCEPT !.d_registers = Append(@, d_high)]
            ELSE low
    ELSE IF register \notin Range(frame.d_registers) /\ register \in callee_save_registers
         THEN [frame EXCEPT !.d_registers = Append(@, register)]
         ELSE frame

RECURSIVE preserve_registers(_, _)
preserve_registers(frame, registers) ==
    IF registers = <<>> THEN frame
    ELSE preserve_registers(preserve_register(frame, Head(registers)), Tail(registers))

get_parameters_offset(frame) ==
    LET parameters_offset == Len(frame.general_purpose_registers) * 4
        padded == IF parameters_offset % 8 = 4 THEN parameters_offset + 4 ELSE parameters_offset
    IN padded + Len(frame.d_registers) * 8

\* sorted(registers, key=lambda reg: reg.get_physical_number())
RECURSIVE sorted(_)
sorted(registers) ==
    IF registers = <<>> THEN <<>>
    ELSE LET rest == sorted(Tail(registers))
             x == Head(registers)
             before == SelectSeq(rest, LAMBDA y : get_physical_number(y) < get_physical_number(x))
             after == SelectSeq(rest, LAMBDA y : get_physical_number(y) >= get_physical_number(x))
         IN before \o <<x>> \o after

\* StackFrame.get_function: the active function, as the set of the attribute
\* records it refers to (empty when the slot is None)
get_function == IF active_function = None THEN {} ELSE {config[active_function]}

\* as is_low, with the bound one register too high
is_low_or_r8(reg) == get_physical_number(reg) <= 8

\* lines 1416 and 1474
is_low(reg) == get_physical_number(reg) <= 7
\* lines 1417 and 1475
is_high(reg) == get_physical_number(reg) > 7

\* as prologue_high_registers, with the dialect of AUTO never matching ARMCC
prologue_high_registers_gas_only(strategy, format, high_registers) ==
    IF strategy = "PUSH_W" \/ (strategy = "AUTO" /\ format = "GAS")
    THEN PUSH_W(sorted(high_registers))
    ELSE IF strategy = "STMDB"
    THEN STMDB(sp, sorted(high_registers))
    ELSE PUSH_W(sorted(high_registers))

\* lines 1430-1440: the instruction that saves the high registers
prologue_high_registers(strategy, format, high_registers) ==
    IF strategy = "PUSH_W" \/ (strategy = "AUTO" /\ format = "GAS")
    THEN PUSH_W(sorted(high_registers))
    ELSE IF strategy = "STMDB" \/ (strategy = "AUTO" /\ format = "ARMCC")
    THEN STMDB(sp, sorted(high_registers))
    ELSE PUSH_W(sorted(high_registers))

\* as epilogue_high_registers, with the dialect of AUTO never matching ARMCC
epilogue_high_registers_gas_only(strategy, format, high_registers) ==
    IF strategy = "PUSH_W" \/ (strategy = "AUTO" /\ format = "GAS")
    THEN POP_W(sorted(high_registers))
    ELSE IF strategy = "STMDB"
    THEN LDMIA(sp, sorted(high_registers))
    ELSE POP_W(sorted(high_registers))

\* lines 1478-1488: the instruction that restores the high registers
epilogue_high_registers(strategy, format, high_registers) ==
    IF strategy = "PUSH_W" \/ (strategy = "AUTO" /\ format = "GAS")
    THEN POP_W(sorted(high_registers))
    ELSE IF strategy = "STMDB" \/ (strategy = "AUTO" /\ format = "ARMCC")
    THEN LDMIA(sp, sorted(high_registers))
    ELSE POP_W(sorted(high_registers))

generate_prologue(frame, function) ==
    LET general_purpose_registers == frame.general_purpose_registers
        is_armv7m == \E fn \in function : "V7M" \in fn.target.extensions
        low_registers == SelectSeq(general_purpose_registers, is_low)
        high_registers == SelectSeq(general_purpose_registers, is_high)
        padded_low == IF Len(low_registers) % 2 = 1
                      THEN Append(low_registers, r3) ELSE low_registers
        low_part == IF low_registers # <<>> THEN <<PUSH(sorted(padded_low))>> ELSE <<>>
        strategy == (CHOOSE fn \in function : TRUE).high_register_strategy
        format == (CHOOSE fn \in function : TRUE).assembly_format
        high_part ==
            IF high_registers = <<>> THEN <<>>
            ELSE <<prologue_high_registers(strategy, format, high_registers)>>
        padded_all == IF Len(general_purpose_registers) % 2 = 1
                      THEN Append(general_purpose_registers, r3)
                      ELSE general_purpose_registers
        gp_part == IF general_purpose_registers = <<>> THEN <<>>
                   ELSE IF is_armv7m THEN low_part \o high_part
                   ELSE <<PUSH(sorted(padded_all))>>
        d_part == IF frame.d_registers # <<>> THEN <<VPUSH(sorted(frame.d_registers))>> ELSE <<>>
    IN gp_part \o d_part

generate_epilogue(frame, function) ==
    LET general_purpose_registers == frame.general_purpose_registers
        is_armv7m == \E fn \in function : "V7M" \in fn.target.extensions
        low_registers == SelectSeq(general_purpose_registers, is_low)
        high_registers == SelectSeq(general_purpose_registers, is_high)
        strategy == (CHOOSE fn \in function : TRUE).high_register_strategy
        format == (CHOOSE fn \in function : TRUE).assembly_format
        high_part ==
            IF high_registers = <<>> THEN <<>>
            ELSE <<epilogue_high_registers(strategy, format, high_registers)>>
        padded_low == IF Len(low_registers) % 2 = 1
                      THEN Append(low_registers, r3) ELSE low_registers
        low_part == IF low_registers # <<>> THEN <<POP(sorted(padded_low))>> ELSE <<>>
        padded_all == IF Len(general_purpose_registers) % 2 = 1
                      THEN Append(general_purpose_registers, r3)
                      ELSE general_purpose_registers
        d_part == IF frame.d_registers # <<>> THEN <<VPOP(sorted(frame.d_registers))>> ELSE <<>>
        gp_part == IF general_purpose_registers = <<>> THEN <<>>
                   ELSE IF is_armv7m THEN high_part \o low_part
                   ELSE <<POP(sorted(padded_all))>>
    IN d_part \o gp_part

(***************************************************************************)
(* The passes Function.__exit__ runs over the instruction stream.          *)
(***************************************************************************)
generate_labels(stream) ==
    IF \E i \in DOMAIN stream :
           is_LabelQuasiInstruction(stream[i]) /\ stream[i].name = "ENTRY"
    THEN stream
    ELSE <<LabelQuasiInstruction("ENTRY")>> \o stream

RECURSIVE decompose_instructions(_)
decompose_instructions(stream) ==
    IF stream = <<>> THEN <<>>
    ELSE IF Head(stream).class = "ReturnInstruction"
         THEN to_instruction_list(Head(stream)) \o decompose_instructions(Tail(stream))
         ELSE <<Head(stream)>> \o decompose_instructions(Tail(stream))

(***************************************************************************)
(* The control-flow graph and Function.determine_live_registers.  Indices   *)
(* of the stream count from 1 here and from 0 in the code.                 *)
(***************************************************************************)
Labels(stream) == {stream[i].name : i \in {j \in DOMAIN stream : is_LabelQuasiInstruction(stream[j])}}

\* get_label_table: the last definition of a label name is the one kept
get_label_table(stream) ==
    [name \in Labels(stream) |->
        CHOOSE i \in DOMAIN stream :
            /\ is_LabelQuasiInstruction(stream[i]) /\ stream[i].name = name
            /\ \A j \in DOMAIN stream :
                   is_LabelQuasiInstruction(stream[j]) /\ stream[j].name = name => j <= i]

find_exit_points(stream) ==
    {i \in DOMAIN stream : stream[i].class = "BranchExchangeInstruction"}

KeyError == [type |-> "KeyError", name |-> "", offset |-> 0, misaligned |-> 0]

\* label_table[target_label] raises KeyError for a label that is not defined
has_undefined_label(stream) ==
    \E i \in DOMAIN stream :
        is_BranchInstruction(stream[i]) /\ stream[i].operands[1].label \notin Labels(stream)

\* determine_branches: the input_branches of the label at index i
input_branches(stream, i) ==
    {b \in DOMAIN stream :
        /\ is_BranchInstruction(stream[b])
        /\ stream[b].operands[1].label \in Labels(stream)
        /\ get_label_table(stream)[stream[b].operands[1].label] = i}

\* a set of indices in the order a for loop goes through it
RECURSIVE ascending(_)
ascending(indices) ==
    IF indices = {} THEN <<>>
    ELSE LET least == CHOOSE i \in indices : \A j \in indices : i <= j
         IN <<least>> \o ascending(indices \ {least})

\* the walks one run of the pass can start are counted up to this number
WalkLimit == MaxFlowBody + 1

\* line 578 reads the attribute instruction.is_conditional without calling
\* it: a bound method, which is true for every instruction
is_conditional_attribute(instruction) == TRUE

\* as is_visited, with the flag never found set
never_visited(S, entry_point) == FALSE

\* line 611: instructions[entry_point].is_visited
is_visited(S, entry_point) == entry_point \in S.is_visited

NoLiveness(stream) ==
    [live_registers |-> [i \in DOMAIN stream |-> {}], is_visited |-> {},
     walks |-> <<>>, overflow |-> FALSE]

RECURSIVE mark_live_registers(_, _, _, _, _, _)
RECURSIVE propagate_live_registers(_, _, _, _, _)
RECURSIVE start_walk(_, _, _, _, _)

\* mark_live_registers (lines 573-613) from index i down, S being the
\* live_registers and is_visited attributes as they stand
mark_live_registers(S, stream, i, exit_point, live_registers, exclude_parameter_loads) ==
    IF i = 0 THEN S
    ELSE LET instruction == stream[i]
         IN IF /\ is_BranchInstruction(instruction)
               /\ ~is_conditional_attribute(instruction)
               /\ i # exit_point
            THEN S
            ELSE IF is_Instruction(instruction)
            THEN LET killed == live_registers \ Range(get_output_registers_list(instruction))
                     used == IF exclude_parameter_loads
                                /\ instruction.class = "LoadArgumentPseudoInstruction"
                             THEN killed
                             ELSE killed \cup Range(get_input_registers_list(instruction))
                     merged == used \cup S.live_registers[i]
                 IN mark_live_registers([S EXCEPT !.live_registers[i] = merged], stream,
                                        i - 1, exit_point, merged, exclude_parameter_loads)
            ELSE IF is_LabelQuasiInstruction(instruction)
            THEN mark_live_registers(
                     propagate_live_registers(S, stream, ascending(input_branches(stream, i)),
                                              live_registers, exclude_parameter_loads),
                     stream, i - 1, exit_point, live_registers, exclude_parameter_loads)
            ELSE mark_live_registers(S, stream, i - 1, exit_point, live_registers,
                                     exclude_parameter_loads)

\* lines 609-613: the loop over the input branches of a label
propagate_live_registers(S, stream, entry_points, live_registers, exclude_parameter_loads) ==
    IF entry_points = <<>> THEN S
    ELSE LET entry_point == Head(entry_points)
         IN IF is_visited(S, entry_point)
            THEN propagate_live_registers(S, stream, Tail(entry_points), live_registers,
                                          exclude_parameter_loads)
            ELSE propagate_live_registers(
                     start_walk([S EXCEPT !.is_visited = @ \cup {entry_point}], stream,
                                entry_point, live_registers, exclude_parameter_loads),
                     stream, Tail(entry_points), live_registers, exclude_parameter_loads)

\* a call of mark_live_registers, entered in the list of the walks made
start_walk(S, stream, exit_point, live_registers, exclude_parameter_loads) ==
    IF Len(S.walks) >= WalkLimit THEN [S EXCEPT !.overflow = TRUE]
    ELSE mark_live_registers([S EXCEPT !.walks = Append(@, exit_point)], stream,
                             exit_point, exit_point, live_registers, exclude_parameter_loads)

\* lines 615-617: one walk from every exit point
RECURSIVE walk_from_exit_points(_, _, _, _)
walk_from_exit_points(S, stream, exit_points, exclude_parameter_loads) ==
    IF exit_points = <<>> THEN S
    ELSE walk_from_exit_points(
             start_walk(S, stream, Head(exit_points), {}, exclude_parameter_loads),
             stream, Tail(exit_points), exclude_parameter_loads)

determine_live_registers(stream, exclude_parameter_loads) ==
    walk_from_exit_points(NoLiveness(stream), stream, ascending(find_exit_points(stream)),
                          exclude_parameter_loads)

RECURSIVE update_stack_frame(_, _)
update_stack_frame(frame, stream) ==
    IF stream = <<>> THEN frame
    ELSE update_stack_frame(
             IF is_Instruction(Head(stream))
             THEN preserve_registers(frame, Head(stream).outputs) ELSE frame,
             Tail(stream))

\* as generate_prolog_and_epilog, with the epilogue after the return
RECURSIVE epilog_after_return(_, _, _)
epilog_after_return(stream, prologue, epilogue) ==
    IF stream = <<>> THEN <<>>
    ELSE LET instruction == Head(stream)
             rest == epilog_after_return(Tail(stream), prologue, epilogue)
         IN IF is_LabelQuasiInstruction(instruction) /\ instruction.name = "ENTRY"
            THEN <<instruction>> \o prologue \o rest
            ELSE IF instruction.class = "BranchExchangeInstruction"
                 THEN <<instruction>> \o epilogue \o rest
                 ELSE <<instruction>> \o rest

RECURSIVE generate_prolog_and_epilog(_, _, _)
generate_prolog_and_epilog(stream, prologue, epilogue) ==
    IF stream = <<>> THEN <<>>
    ELSE LET instruction == Head(stream)
             rest == generate_prolog_and_epilog(Tail(stream), prologue, epilogue)
         IN IF is_LabelQuasiInstruction(instruction)
            THEN IF instruction.name = "ENTRY"
                 THEN <<instruction>> \o prologue \o rest
                 ELSE <<instruction>> \o rest
            ELSE IF instruction.class = "BranchExchangeInstruction"
                 THEN epilogue \o <<instruction>> \o rest
                 ELSE <<instruction>> \o rest

optimize_instructions(stream) ==
    SelectSeq(stream, LAMBDA instruction :
        instruction.class = "VfpNeonMovInstruction"
            => instruction.operands[1] # instruction.operands[2])

(***************************************************************************)
(* Function.validate_stack_alignment_check.                                *)
(***************************************************************************)
startswith(name, prefix) ==
    CASE prefix = "STM" -> name \in {"STM", "STMDB", "STMIA"}
      [] prefix = "LDM" -> name \in {"LDM", "LDMIA", "LDMDB"}
      [] prefix = "SUB" -> name \in {"SUB", "SUBS"}
      [] prefix = "ADD" -> name \in {"ADD", "ADDS"}
      [] OTHER -> FALSE

NoException == [type |-> "None", name |-> "", offset |-> 0, misaligned |-> 0]
StackAlignmentError(name, stack_offset) ==
    [type |-> "ValueError: Stack is not 8-byte aligned", name |-> name,
     offset |-> stack_offset, misaligned |-> stack_offset % 8]

\* as is_prologue_instruction, with no instruction taken for the prologue's
no_prologue_instruction(instruction) == FALSE

\* lines 1084-1096: is this instruction skipped as one of the prologue?
is_prologue_instruction(instruction) ==
    \/ instruction.class = "PushPopInstruction" /\ instruction.name \in {"PUSH", "PUSH.W"}
    \/ instruction.class = "VfpNeonPushPopInstruction"
    \/ /\ instruction.class = "StoreMultipleInstruction"
       /\ instruction.writeback
       /\ startswith(instruction.name, "STM")

\* as track_push_pop, with the POP branch left out
track_push_only(name, num_registers, stack_offset) ==
    IF name \in {"PUSH", "PUSH.W"} THEN stack_offset + num_registers * 4
    ELSE stack_offset

\* lines 1100-1107: the stack offset after a PUSH or a POP
track_push_pop(name, num_registers, stack_offset) ==
    IF name \in {"PUSH", "PUSH.W"} THEN stack_offset + num_registers * 4
    ELSE IF name \in {"POP", "POP.W"} THEN stack_offset - num_registers * 4
    ELSE stack_offset

\* lines 1098-1145: the stack offset after a tracked instruction
track_stack_offset(instruction, stack_offset) ==
    IF instruction.class = "PushPopInstruction"
    THEN track_push_pop(instruction.name,
                        Len(get_registers_list(instruction.operands[1])), stack_offset)
    ELSE IF instruction.class = "StoreMultipleInstruction"
    THEN IF instruction.writeback /\ instruction.operands[1].register = <<sp>>
         THEN LET num_registers == Len(get_registers_list(instruction.operands[2]))
              IN IF startswith(instruction.name, "STM") THEN stack_offset + num_registers * 4
                 ELSE IF startswith(instruction.name, "LDM")
                      THEN stack_offset - num_registers * 4
                      ELSE stack_offset
         ELSE stack_offset
    ELSE IF instruction.class = "ArithmeticInstruction"
    THEN IF /\ Len(instruction.operands) >= 3
            /\ instruction.operands[1].register = <<sp>>
            /\ instruction.operands[2].register = <<sp>>
            /\ instruction.operands[3].immediate # <<>>
         THEN LET imm_value == instruction.operands[3].immediate[1]
              IN IF startswith(instruction.name, "SUB") THEN stack_offset + imm_value
                 ELSE IF startswith(instruction.name, "ADD") THEN stack_offset - imm_value
                 ELSE stack_offset
         ELSE stack_offset
    ELSE stack_offset

is_call(instruction) ==
    instruction.class \in {"BranchWithLinkInstruction", "BranchLinkExchangeInstruction"}

\* the loop of lines 1079-1155 from position i on
RECURSIVE walk_stack_alignment(_, _, _, _, _)
walk_stack_alignment(stream, i, prologue_size, prologue_instructions_seen, stack_offset) ==
    IF i > Len(stream) THEN NoException
    ELSE LET instruction == stream[i]
         IN IF ~is_Instruction(instruction)
            THEN walk_stack_alignment(stream, i + 1, prologue_size,
                                      prologue_instructions_seen, stack_offset)
            ELSE IF prologue_instructions_seen < prologue_size
                    /\ is_prologue_instruction(instruction)
            THEN walk_stack_alignment(stream, i + 1, prologue_size,
                                      prologue_instructions_seen + 1, stack_offset)
            ELSE IF is_call(instruction) /\ stack_offset % 8 # 0
            THEN StackAlignmentError(instruction.name, stack_offset)
            ELSE walk_stack_alignment(stream, i + 1, prologue_size, prologue_instructions_seen,
                                      track_stack_offset(instruction, stack_offset))

validate_stack_alignment_check(stream, target, frame, function) ==
    IF "V7M" \notin target.extensions THEN NoException
    ELSE walk_stack_alignment(stream, 1, Len(generate_prologue(frame, function)), 0, 0)

(***************************************************************************)
(* Function: construction, the with-scope and instruction emission.        *)
(***************************************************************************)
NoConfig ==
    [target |-> CortexA9, abi |-> "None", assembly_format |-> "None",
     high_register_strategy |-> "None", validate_stack_alignment |-> TRUE]

Call(op, f, failed) == [op |-> op, function |-> f, raised |-> failed]

\* Function.__init__: args is the tuple of Argument objects, cfg the keyword
\* arguments as given ("None" where left out).
Function_init(f, args, cfg) ==
    /\ pc[f] = "unborn"
    /\ LET placed == place_arguments(args, cfg.abi, argument)
       IN /\ argument' = placed.argument
          /\ IF placed.raised
             THEN /\ last_call' = Call("__init__", f, TRUE)
                  /\ UNCHANGED <<pc, config, arguments, instructions, stack_frame>>
             ELSE /\ last_call' = Call("__init__", f, FALSE)
                  /\ pc' = [pc EXCEPT ![f] = "constructed"]
                  /\ config' = [config EXCEPT ![f] =
                        [cfg EXCEPT
                            !.assembly_format = IF @ = "None" THEN "GAS" ELSE @,
                            !.high_register_strategy = IF @ = "None" THEN "AUTO" ELSE @]]
                  /\ arguments' = [arguments EXCEPT ![f] = args]
                  /\ instructions' = [instructions EXCEPT ![f] = <<>>]
                  /\ stack_frame' = [stack_frame EXCEPT ![f] = StackFrame]
    /\ UNCHANGED <<active_function, active_stream, prologue_instructions,
                   epilogue_instructions, raised, analysis, emitted>>

\* as can_enter, with the two checks of lines 108-111 left out
can_enter_unchecked == TRUE

\* lines 108-111: may the with-scope be entered?
can_enter == active_function = None /\ active_stream = None

\* Function.__enter__, run by "with f:" wherever the user writes it
Function_enter(f) ==
    /\ pc[f] = "constructed"
    /\ IF can_enter
       THEN /\ active_function' = f
            /\ active_stream' = f
            /\ pc' = [pc EXCEPT ![f] = "body"]
            /\ last_call' = Call("__enter__", f, FALSE)
       ELSE /\ last_call' = Call("__enter__", f, TRUE)
            /\ UNCHANGED <<active_function, active_stream, pc>>
    /\ UNCHANGED <<config, arguments, argument, instructions, stack_frame,
                   prologue_instructions, epilogue_instructions, raised, analysis, emitted>>

\* as is_supported, with the check of the extensions left out
is_supported_always(instruction, target) == TRUE

\* lines 441-444: every ISA extension of the instruction is one of the target
is_supported(instruction, target) ==
    is_Instruction(instruction) =>
        \A extension \in instruction.isa_extensions : extension \in target.extensions

\* Function.add_instruction, reached through the active stream by every
\* instruction the body emits
add_instruction(f, instruction) ==
    /\ pc[f] = "body"
    /\ active_stream = f
    /\ IF ~is_supported(instruction, config[f].target)
       THEN /\ last_call' = Call("add_instruction", f, TRUE)
            /\ UNCHANGED <<instructions, stack_frame>>
       ELSE /\ last_call' = Call("add_instruction", f, FALSE)
            /\ stack_frame' = [stack_frame EXCEPT ![f] =
                  IF is_Instruction(instruction)
                  THEN preserve_registers(@, instruction.outputs) ELSE @]
            /\ instructions' = [instructions EXCEPT ![f] = Append(@, instruction)]
    /\ UNCHANGED <<active_function, active_stream, pc, config, arguments, argument,
                   prologue_instructions, epilogue_instructions, raised, analysis, emitted>>

RegisterAllocationError ==
    [type |-> "RegisterAllocationError", name |-> "", offset |-> 0, misaligned |-> 0]
UserException ==
    [type |-> "Exception", name |-> "", offset |-> 0, misaligned |-> 0]

(***************************************************************************)
(* Function.determine_register_relations and Function.allocate_registers.  *)
(* A bitboard is the set of its bits; the id of a register is its number;  *)
(* a key of allocation_options is a tuple of ids, of length 1 for a single *)
(* register.                                                               *)
(***************************************************************************)
\* Register.type: the bank
regtype(reg) == IF reg.type = "GP" THEN "GPType" ELSE "VFPType"

\* Register.bitboard of a physical register
bitboard(reg) ==
    CASE reg.type = "GP" -> {reg.number}
      [] reg.type = "S" -> {reg.number}
      [] reg.type = "D" -> {2 * reg.number, 2 * reg.number + 1}
      [] reg.type = "Q" -> (4 * reg.number)..(4 * reg.number + 3)

\* Register.from_bitboard
from_bitboard(bits, type) ==
    LET lowest == CHOOSE b \in bits : \A c \in bits : b <= c
    IN IF type = "GPType" THEN GeneralPurposeRegister(lowest)
       ELSE IF Cardinality(bits) = 1 THEN SRegister(lowest)
       ELSE IF Cardinality(bits) = 2 THEN DRegister(lowest \div 2)
       ELSE QRegister(lowest \div 4)

\* target.has_vfpd32
has_vfpd32(target) == "VFPd32" \in target.extensions \/ "NEON" \in target.extensions

\* lines 643-650: volatile + reversed(argument) + callee-save registers
available_registers ==
    <<{12}, {3}, {2}, {1}, {0}, {4}, {5}, {6}, {7}, {8}, {9}, {10}, {11}>>

\* lines 662-673: the options a virtual register starts with
default_options(reg, target) ==
    CASE reg.type = "GP" -> available_registers
      [] reg.type = "S" -> [k \in 1..32 |-> {k - 1}]
      [] reg.type = "D" -> [k \in 1..(IF has_vfpd32(target) THEN 32 ELSE 16) |->
                              {2 * (k - 1), 2 * (k - 1) + 1}]
      [] reg.type = "Q" -> [k \in 1..16 |-> (4 * (k - 1))..(4 * (k - 1) + 3)]

\* the registers that are live at instruction i of the stream
virtual_live_registers(live, i) == {reg \in live[i] : is_virtual(reg)}
physical_live_registers(live, i) == {reg \in live[i] : ~is_virtual(reg)}

VirtualRegisters(stream, live) ==
    UNION {virtual_live_registers(live, i) : i \in DOMAIN stream}

\* lines 651-681: unallocated_registers, one entry for every instruction a
\* virtual register is live at
RECURSIVE collect_unallocated(_, _, _)
collect_unallocated(stream, live, i) ==
    IF i > Len(stream) THEN <<>>
    ELSE LET ids == ascending({reg.number : reg \in virtual_live_registers(live, i)})
         IN [k \in DOMAIN ids |-> <<ids[k]>>] \o collect_unallocated(stream, live, i + 1)

\* lines 675-681: conflicting_registers
collect_conflicts(stream, live) ==
    [x \in {reg.number : reg \in VirtualRegisters(stream, live)} |->
        {y.number : y \in {reg \in VirtualRegisters(stream, live) :
            /\ reg.number # x
            /\ \E i \in DOMAIN stream : \E regX \in virtual_live_registers(live, i) :
                   /\ regX.number = x /\ reg \in virtual_live_registers(live, i)
                   /\ regtype(regX) = regtype(reg)}}]

\* lines 684-699: the bits of the physical registers of its bank that are
\* live where the virtual register is live
physical_bits(stream, live, reg) ==
    LET together == {j \in DOMAIN stream : reg \in virtual_live_registers(live, j)}
        physical == {q \in UNION {physical_live_registers(live, j) : j \in together} :
                        regtype(q) = regtype(reg)}
    IN UNION {bitboard(q) : q \in physical}

\* lines 695-699: the options that share no bit with the blocked ones
RECURSIVE free_options(_, _)
free_options(options, blocked) ==
    IF options = <<>> THEN <<>>
    ELSE (IF Head(options) \cap blocked = {} THEN << <<Head(options)>> >> ELSE <<>>)
             \o free_options(Tail(options), blocked)

single_options(stream, live, target) ==
    [key \in {<<reg.number>> : reg \in VirtualRegisters(stream, live)} |->
        Only({free_options(default_options(reg, target), physical_bits(stream, live, reg)) :
                 reg \in {r \in VirtualRegisters(stream, live) : r.number = key[1]}})]

\* as group_bitboards, every register two slots after the one before
group_bitboards_strided(position, count) ==
    [i \in 1..count |-> {position + 4 * (i - 1), position + 4 * (i - 1) + 1}]

\* lines 723-724: the bitboards of a D register list that starts at a bit
group_bitboards(position, count) ==
    [i \in 1..count |-> {position + 2 * (i - 1), position + 2 * (i - 1) + 1}]

is_group(instruction) ==
    /\ instruction.class = "NeonLoadStoreInstruction"
    /\ Len(instruction.operands[1].registers) > 1

\* lines 713-718: the ids of a register list, each once
RECURSIVE register_id_list(_)
register_id_list(registers) ==
    IF registers = <<>> THEN <<>>
    ELSE LET rest == register_id_list(Tail(registers))
         IN <<Head(registers).number>>
                \o SelectSeq(rest, LAMBDA id : id # Head(registers).number)

\* lines 722-749: the options of the register list of one instruction
group_options(registers, options) ==
    LET count == Len(registers)
        ids == register_id_list(registers)
        positions == {2 * k : k \in 0..(32 - count)}
        fits(position) ==
            LET bitboards == group_bitboards(position, count)
            IN /\ \A i \in 1..count : <<bitboards[i]>> \in Range(options[<<registers[i].number>>])
               /\ \A i, j \in 1..count :
                      registers[i].number = registers[j].number => bitboards[i] = bitboards[j]
               /\ \A i, j \in 1..count :
                      registers[i].number # registers[j].number
                          => bitboards[i] \cap bitboards[j] = {}
        chosen == ascending({position \in positions : fits(position)})
    IN [k \in DOMAIN chosen |->
           [n \in DOMAIN ids |->
               group_bitboards(chosen[k], count)[
                   CHOOSE i \in 1..count : registers[i].number = ids[n]]]]

Groups(stream) == {i \in DOMAIN stream : is_Instruction(stream[i]) /\ is_group(stream[i])}

\* constraints.keys(): the id tuples of the instructions at these indices,
\* each once, in the order they are met
RECURSIVE constraint_keys(_, _)
constraint_keys(stream, groups) ==
    IF groups = <<>> THEN <<>>
    ELSE LET key == register_id_list(stream[Head(groups)].operands[1].registers)
         IN <<key>> \o SelectSeq(constraint_keys(stream, Tail(groups)), LAMBDA k : k # key)

AssertionError == [type |-> "AssertionError", name |-> "", offset |-> 0, misaligned |-> 0]

\* lines 700-866, given what lines 651-699 left in the three attributes
group_relations(stream, singles, conflicts, unallocated) ==
    LET groups == ascending(Groups(stream))
        keys == {register_id_list(stream[i].operands[1].registers) : i \in Groups(stream)}
        grouped == UNION {Range(key) : key \in keys}
        relations(error) ==
            [raised |-> error, conflicting_registers |-> conflicts,
             allocation_options |-> singles, unallocated_registers |-> unallocated]
    IN IF groups = <<>> THEN relations(NoException)
       ELSE IF \E i \in Groups(stream) : \E reg \in Range(stream[i].operands[1].registers) :
                  <<reg.number>> \notin DOMAIN singles
       THEN relations(KeyError)
       ELSE Only({
           IF \E i \in DOMAIN options : options[i] = <<>>
           THEN relations(RegisterAllocationError)
           ELSE IF \E key1, key2 \in keys : key1 # key2 /\ Range(key1) \cap Range(key2) # {}
           THEN relations(AssertionError)
           ELSE [raised |-> NoException,
                 conflicting_registers |-> conflicts,
                 allocation_options |->
                     [key \in ({k \in DOMAIN singles : k[1] \notin grouped} \cup keys) |->
                         IF key \in keys THEN options[Len(options)] ELSE singles[key]],
                 unallocated_registers |->
                     SelectSeq(unallocated, LAMBDA key : key[1] \notin grouped)
                         \o constraint_keys(stream, groups)]
           : options \in {[n \in DOMAIN groups |->
                 group_options(stream[groups[n]].operands[1].registers, singles)]}})

\* determine_register_relations (lines 636-866) on a stream with its live
\* sets: what it raises and the three attributes it fills
determine_register_relations(stream, live, target) ==
    Only({group_relations(stream, singles, conflicts, unallocated) :
             singles \in {single_options(stream, live, target)},
             conflicts \in {collect_conflicts(stream, live)},
             unallocated \in {collect_unallocated(stream, live, 1)}})

\* "for option in options: if option[index] & bits: options.remove(option)"
\* from element k on: the loop goes by position, so the element that
\* follows a removed one is not looked at
RECURSIVE remove_overlapping(_, _, _, _)
remove_overlapping(options, k, index, bits) ==
    IF k > Len(options) THEN options
    ELSE IF options[k][index] \cap bits # {}
    THEN remove_overlapping(SubSeq(options, 1, k - 1) \o SubSeq(options, k + 1, Len(options)),
                            k + 1, index, bits)
    ELSE remove_overlapping(options, k + 1, index, bits)

\* bind_register (lines 878-886): A holds allocation_options and
\* register_allocation
bind_register(A, conflicts, id, physical_register) ==
    [A EXCEPT
        !.allocation_options =
            [key \in DOMAIN @ |->
                IF Len(key) = 1 /\ key[1] \in conflicts[id]
                THEN remove_overlapping(@[key], 1, 1, bitboard(physical_register))
                ELSE @[key]],
        !.register_allocation =
            [i \in DOMAIN @ \cup {id} |-> IF i = id THEN physical_register ELSE @[i]]]

\* lines 895-907: the options of every key that holds the conflicting id
prune_options(options, conflicting, bits) ==
    [key \in DOMAIN options |->
        IF Len(key) > 1 /\ conflicting \in Range(key)
        THEN remove_overlapping(options[key], 1,
                                CHOOSE n \in DOMAIN key : key[n] = conflicting, bits)
        ELSE IF key = <<conflicting>>
        THEN remove_overlapping(options[key], 1, 1, bits)
        ELSE options[key]]

IndexError == [type |-> "IndexError", name |-> "", offset |-> 0, misaligned |-> 0]

\* line 899, bitboard_list[conflicting_register_index]: the options of a
\* key are shorter than the key and the conflicting id is beyond their end
index_out_of_range(options, conflicting) ==
    \E key \in DOMAIN options :
        /\ Len(key) > 1
        /\ conflicting \in Range(key)
        /\ options[key] # <<>>
        /\ (CHOOSE n \in DOMAIN key : key[n] = conflicting) > Len(options[key][1])

\* line 894, the loop over the conflicting registers of one bound register
RECURSIVE prune_conflicting(_, _, _)
prune_conflicting(A, conflicting_ids, bits) ==
    IF conflicting_ids = <<>> \/ A.raised # NoException THEN A
    ELSE IF index_out_of_range(A.allocation_options, Head(conflicting_ids))
    THEN [A EXCEPT !.raised = IndexError]
    ELSE prune_conflicting(
             [A EXCEPT !.allocation_options = prune_options(@, Head(conflicting_ids), bits)],
             Tail(conflicting_ids), bits)

\* lines 908-909: the ids get their registers, pairwise
RECURSIVE record_allocation(_, _, _, _)
record_allocation(allocation, ids, physical_registers, n) ==
    IF n > Len(ids) \/ n > Len(physical_registers) THEN allocation
    ELSE record_allocation(
             [i \in DOMAIN allocation \cup {ids[n]} |->
                 IF i = ids[n] THEN physical_registers[n] ELSE allocation[i]],
             ids, physical_registers, n + 1)

\* bind_registers (lines 888-909) from position n of the two lists on
RECURSIVE bind_registers(_, _, _, _, _)
bind_registers(A, conflicts, ids, physical_registers, n) ==
    IF A.raised # NoException THEN A
    ELSE IF n > Len(ids) \/ n > Len(physical_registers)
    THEN [A EXCEPT !.register_allocation = record_allocation(@, ids, physical_registers, 1)]
    ELSE Only({bind_registers(next, conflicts, ids, physical_registers, n + 1) :
                  next \in {prune_conflicting(A, ascending(conflicts[ids[n]]),
                                              bitboard(physical_registers[n]))}})

\* lines 925-933: the register groups, in the order of unallocated_registers
RECURSIVE allocate_groups(_, _, _)
allocate_groups(A, conflicts, unallocated) ==
    IF unallocated = <<>> \/ A.raised # NoException THEN A
    ELSE LET key == Head(unallocated)
         IN IF Len(key) = 1 THEN allocate_groups(A, conflicts, Tail(unallocated))
            ELSE IF A.allocation_options[key] = <<>>
            THEN [A EXCEPT !.raised = AssertionError]
            ELSE Only({allocate_groups(next, conflicts, Tail(unallocated)) :
                          next \in {bind_registers(A, conflicts, key,
                              [n \in DOMAIN A.allocation_options[key][1] |->
                                  from_bitboard(A.allocation_options[key][1][n], "VFPType")],
                              1)}})

\* lines 935-943: the other registers, each given its first option
RECURSIVE allocate_singles(_, _, _, _)
allocate_singles(A, conflicts, unallocated, types) ==
    IF unallocated = <<>> \/ A.raised # NoException THEN A
    ELSE LET key == Head(unallocated)
         IN IF Len(key) > 1 \/ key[1] \in DOMAIN A.register_allocation
            THEN allocate_singles(A, conflicts, Tail(unallocated), types)
            ELSE IF A.allocation_options[key] = <<>>
            THEN [A EXCEPT !.raised = AssertionError]
            ELSE Only({allocate_singles(next, conflicts, Tail(unallocated), types) :
                          next \in {bind_register(A, conflicts, key[1],
                              from_bitboard(A.allocation_options[key][1][1], types[key[1]]))}})

\* the operands and outputs of an instruction after bind() of the registers
\* that have an allocation
bound(reg, allocation) ==
    IF is_virtual(reg) /\ reg.number \in DOMAIN allocation THEN allocation[reg.number] ELSE reg

bind_instruction(instruction, allocation) ==
    IF ~is_Instruction(instruction) THEN instruction
    ELSE [instruction EXCEPT
             !.operands = [n \in DOMAIN @ |->
                 [@[n] EXCEPT
                     !.register = [k \in DOMAIN @ |-> bound(@[k], allocation)],
                     !.registers = [k \in DOMAIN @ |-> bound(@[k], allocation)]]],
             !.outputs = [k \in DOMAIN @ |-> bound(@[k], allocation)]]

\* allocate_registers (lines 868-953) after determine_register_relations:
\* what it raises, the allocation and the stream with the registers bound.
\* register_allocation[input_register.id] at line 949 raises KeyError for
\* an input that was given no allocation.
allocate_registers(stream, relations, types) ==
    Only({[raised |->
               IF A.raised # NoException THEN A.raised
               ELSE IF \E i \in DOMAIN stream :
                          /\ is_Instruction(stream[i])
                          /\ \E reg \in Range(get_input_registers_list(stream[i])) :
                                 is_virtual(reg) /\ reg.number \notin DOMAIN A.register_allocation
               THEN KeyError ELSE NoException,
           allocation_options |-> A.allocation_options,
           register_allocation |-> A.register_allocation,
           instructions |->
               IF A.raised # NoException THEN stream
               ELSE [i \in DOMAIN stream |-> bind_instruction(stream[i], A.register_allocation)]]
          : A \in {allocate_singles(
                       allocate_groups([raised |-> NoException,
                                        allocation_options |-> relations.allocation_options,
                                        register_allocation |-> <<>>],
                                       relations.conflicting_registers,
                                       relations.unallocated_registers),
                       relations.conflicting_registers, relations.unallocated_registers,
                       types)}})

\* as run_validation, with the validate_stack_alignment flag ignored
run_validation_always(cfg, stream, frame, function) ==
    validate_stack_alignment_check(stream, cfg.target, frame, function)

\* lines 180-181
run_validation(cfg, stream, frame, function) ==
    IF cfg.validate_stack_alignment
    THEN validate_stack_alignment_check(stream, cfg.target, frame, function)
    ELSE NoException

\* what the analyses of __exit__ record on the instructions of a Function:
\* stream is the stream they ran on, constraint_options is allocation_options
\* as determine_register_relations left it
NoAnalysis ==
    [stream |-> <<>>, live_registers |-> <<>>, is_visited |-> {}, walks |-> <<>>,
     overflow |-> FALSE, conflicting_registers |-> <<>>, constraint_options |-> <<>>,
     allocation_options |-> <<>>, register_allocation |-> <<>>]

\* lines 136-137: determine_live_registers(exclude_parameter_loads=True)
analyse(stream) ==
    Only({[NoAnalysis EXCEPT !.stream = stream, !.live_registers = liveness.live_registers,
                             !.is_visited = liveness.is_visited, !.walks = liveness.walks,
                             !.overflow = liveness.overflow]
          : liveness \in {determine_live_registers(stream, TRUE)}})

\* the passes up to the one that raised error
failed_passes(f, parsed, error, analysed) ==
    [instructions |-> parsed, stack_frame |-> stack_frame[f], prologue |-> <<>>,
     epilogue |-> <<>>, raised |-> error, analysis |-> analysed]

\* lines 174-185, on the stream with its registers bound
passes_after_allocation(f, bound_stream, analysed) ==
    LET frame == update_stack_frame(stack_frame[f], bound_stream)
        prologue == generate_prologue(frame, get_function)
        epilogue == generate_epilogue(frame, get_function)
        framed == generate_prolog_and_epilog(bound_stream, prologue, epilogue)
        error == run_validation(config[f], framed, frame, get_function)
    IN [instructions |-> IF error = NoException
                         THEN optimize_instructions(framed) ELSE framed,
        stack_frame |-> frame, prologue |-> prologue, epilogue |-> epilogue,
        raised |-> error, analysis |-> analysed]

\* line 167, allocate_registers
passes_after_relations(f, parsed, analysed, relations) ==
    Only({IF allocated.raised # NoException
          THEN failed_passes(f, parsed, allocated.raised,
                   [analysed EXCEPT
                       !.conflicting_registers = relations.conflicting_registers,
                       !.constraint_options = relations.allocation_options,
                       !.allocation_options = allocated.allocation_options,
                       !.register_allocation = allocated.register_allocation])
          ELSE passes_after_allocation(f, allocated.instructions,
                   [analysed EXCEPT
                       !.conflicting_registers = relations.conflicting_registers,
                       !.constraint_options = relations.allocation_options,
                       !.allocation_options = allocated.allocation_options,
                       !.register_allocation = allocated.register_allocation])
          : allocated \in {allocate_registers(parsed, relations,
                [id \in DOMAIN relations.conflicting_registers |->
                    regtype(CHOOSE reg \in VirtualRegisters(parsed, analysed.live_registers) :
                                reg.number = id)])}})

\* line 166, determine_register_relations on the stream with its live sets
passes_after_liveness(f, allocation_error, parsed, analysed) ==
    IF allocation_error THEN failed_passes(f, parsed, RegisterAllocationError, analysed)
    ELSE Only({IF relations.raised # NoException
               THEN failed_passes(f, parsed, relations.raised,
                        [analysed EXCEPT
                            !.conflicting_registers = relations.conflicting_registers,
                            !.allocation_options = relations.allocation_options])
               ELSE passes_after_relations(f, parsed, analysed, relations)
               : relations \in {determine_register_relations(
                                    parsed, analysed.live_registers, config[f].target)}})

\* lines 136-137, on the stream after generate_labels and
\* decompose_instructions
passes_after_parsing(f, allocation_error, parsed) ==
    IF has_undefined_label(parsed) THEN failed_passes(f, parsed, KeyError, NoAnalysis)
    ELSE Only({passes_after_liveness(f, allocation_error, parsed, analysed) :
                  analysed \in {analyse(parsed)}})

\* The try block of Function.__exit__ (lines 128-189) for Function f, while
\* f is still the active function.  allocation_error says whether the
\* virtual registers of the body, which this model leaves out, make
\* determine_register_relations or allocate_registers raise.
run_passes(f, allocation_error) ==
    Only({passes_after_parsing(f, allocation_error, parsed) :
             parsed \in {decompose_instructions(generate_labels(instructions[f]))}})

\* Function.detach: the slot after it ran
detach == None

\* as finally_detach, had detach followed the passes without try/finally
detach_after_passes(error) == IF error = NoException THEN detach ELSE active_function

\* lines 127 and 190-191: the slot when the try block is left, error being
\* what a pass raised: the finally clause detaches on every way out
finally_detach(error) == detach

\* Function.__exit__, run when the with-scope of f is left: exc_type is the
\* exception the body raised, if any.
Function_exit(f, exc_type, allocation_error) ==
    /\ pc[f] = "body"
    /\ active_function = f
    /\ active_stream' = None
    /\ IF exc_type = NoException
       THEN LET result == run_passes(f, allocation_error)
            IN /\ instructions' = [instructions EXCEPT ![f] = result.instructions]
               /\ stack_frame' = [stack_frame EXCEPT ![f] = result.stack_frame]
               /\ prologue_instructions' =
                      [prologue_instructions EXCEPT ![f] = result.prologue]
               /\ epilogue_instructions' =
                      [epilogue_instructions EXCEPT ![f] = result.epilogue]
               /\ raised' = [raised EXCEPT ![f] = result.raised]
               /\ analysis' = [analysis EXCEPT ![f] = result.analysis]
               /\ pc' = [pc EXCEPT ![f] =
                      IF result.raised = NoException THEN "done" ELSE "failed"]
               /\ last_call' = Call("__exit__", f, result.raised # NoException)
               /\ active_function' = finally_detach(result.raised)
       ELSE /\ active_function' = detach
            /\ raised' = [raised EXCEPT ![f] = exc_type]
            /\ pc' = [pc EXCEPT ![f] = "failed"]
            /\ last_call' = Call("__exit__", f, TRUE)
            /\ UNCHANGED <<instructions, stack_frame, prologue_instructions,
                           epilogue_instructions, analysis>>
    /\ UNCHANGED <<config, arguments, argument, emitted>>

(***************************************************************************)
(* The emitters.  A text is a sequence of lines, a line the sequence of    *)
(* the strings that are joined to make it.                                 *)
(***************************************************************************)
\* the name argument of Function.__init__
Function_name(f) == IF f = 1 THEN "fn" ELSE "gn"

\* Function.isa_extensions of a Function with this target and stream
isa_extensions(target, stream) ==
    target.extensions
        \cup UNION {stream[i].isa_extensions : i \in {j \in DOMAIN stream : is_Instruction(stream[j])}}
        \cup (IF \E i \in DOMAIN stream :
                   /\ is_Instruction(stream[i])
                   /\ \E reg \in Range(get_input_registers_list(stream[i]))
                             \cup Range(get_output_registers_list(stream[i])) :
                          reg.type = "Q" \/ (reg.type = "D" /\ reg.number >= 16 /\ ~is_virtual(reg))
               THEN {"VFPd32"} ELSE {})

\* as gnu_arch_spec, with the test for V7M made before the one for Div
gnu_arch_spec_v7m_first(extensions) ==
    IF "V7M" \in extensions THEN ".arch armv7-m"
    ELSE IF "Div" \in extensions THEN ".cpu cortex-a15"
    ELSE IF "V7MP" \in extensions THEN ".cpu cortex-a9"
    ELSE IF "V7" \in extensions THEN ".arch armv7-a"
    ELSE IF "V6K" \in extensions THEN ".arch armv6zk"
    ELSE IF "V6" \in extensions THEN ".arch armv6"
    ELSE IF "V5E" \in extensions THEN ".arch armv5te"
    ELSE ".arch armv5t"

gnu_arch_spec(extensions) ==
    IF "Div" \in extensions THEN ".cpu cortex-a15"
    ELSE IF "V7MP" \in extensions THEN ".cpu cortex-a9"
    ELSE IF "V7M" \in extensions THEN ".arch armv7-m"
    ELSE IF "V7" \in extensions THEN ".arch armv7-a"
    ELSE IF "V6K" \in extensions THEN ".arch armv6zk"
    ELSE IF "V6" \in extensions THEN ".arch armv6"
    ELSE IF "V5E" \in extensions THEN ".arch armv5te"
    ELSE ".arch armv5t"

\* None is the empty sequence
gnu_fpu_spec(extensions) ==
    IF "NEON2" \in extensions \/ "VFP4" \in extensions THEN <<".fpu neon-vfpv4">>
    ELSE IF "NEONHP" \in extensions \/ ("VFPHP" \in extensions /\ "NEON" \in extensions)
    THEN <<".fpu neon-fp16">>
    ELSE IF "NEON" \in extensions THEN <<".fpu neon">>
    ELSE IF "VFPHP" \in extensions
    THEN IF "VFPd32" \in extensions THEN <<".fpu vfpv3-fp16">> ELSE <<".fpu vfpv3-d16-fp16">>
    ELSE IF "VFP3" \in extensions
    THEN IF "VFPd32" \in extensions THEN <<".fpu vfpv3">> ELSE <<".fpu vfpv3-d16">>
    ELSE <<>>

armcc_fpu_spec(extensions) ==
    IF "NEON2" \in extensions \/ "VFP4" \in extensions THEN <<"REQUIRE VFPv4">>
    ELSE IF "NEONHP" \in extensions \/ ("VFPHP" \in extensions /\ "NEON" \in extensions)
    THEN <<"REQUIRE VFPv3_FP16">>
    ELSE IF "NEON" \in extensions THEN <<"REQUIRE VFPv3">>
    ELSE IF "VFPHP" \in extensions THEN <<"REQUIRE VFPv3_FP16">>
    ELSE IF "VFP3" \in extensions THEN <<"REQUIRE VFPv3">>
    ELSE IF "VFP" \in extensions \/ "VFP2" \in extensions THEN <<"REQUIRE VFPv2">>
    ELSE <<>>

\* lines 266-267 and 275: "{0} L{1}.{2}" and "L{0}.{1}:"
gas_branch_target(function_name, label) == <<"L", function_name, ".", label>>
gas_label_definition(function_name, label) == <<"L", function_name, ".", label, ":">>

\* lines 330-331 and 338: "{0} {1}_{2}" and "{0}_{1}"
armcc_branch_target(function_name, label) == <<function_name, "_", label>>
armcc_label_definition(function_name, label) == <<function_name, "_", label>>

\* the lines of the loop over self.instructions; str(instruction) is the
\* mnemonic here, the operands left out
RECURSIVE gas_instructions(_, _)
gas_instructions(function_name, stream) ==
    IF stream = <<>> THEN <<>>
    ELSE LET instruction == Head(stream)
             line == IF is_BranchInstruction(instruction)
                     THEN <<"\t", instruction.name, " ">>
                              \o gas_branch_target(function_name, instruction.operands[1].label)
                     ELSE IF is_LabelQuasiInstruction(instruction)
                     THEN gas_label_definition(function_name, instruction.name)
                     ELSE <<"\t", instruction.name>>
         IN <<line>> \o gas_instructions(function_name, Tail(stream))

RECURSIVE armcc_instructions(_, _)
armcc_instructions(function_name, stream) ==
    IF stream = <<>> THEN <<>>
    ELSE LET instruction == Head(stream)
             line == IF is_BranchInstruction(instruction)
                     THEN <<"        ", instruction.name, " ">>
                              \o armcc_branch_target(function_name, instruction.operands[1].label)
                     ELSE IF is_LabelQuasiInstruction(instruction)
                     THEN armcc_label_definition(function_name, instruction.name)
                     ELSE <<"        ", instruction.name>>
         IN <<line>> \o armcc_instructions(function_name, Tail(stream))

\* _generate_gas_assembly of a Function built with is_thumb=False,
\* alignment=0 and no constants
generate_gas_assembly(function_name, target, stream) ==
    LET extensions == isa_extensions(target, stream)
    IN <<  <<"\t.syntax unified">>,
           <<"\t", gnu_arch_spec(extensions)>>,
           <<"\n\t.text\n">>,
           <<".global ", function_name>>,
           <<".type ", function_name, ", %function">>,
           <<function_name, ":">>  >>
       \o (IF gnu_fpu_spec(extensions) # <<>>
           THEN << <<"\t">> \o gnu_fpu_spec(extensions) >> ELSE <<>>)
       \o gas_instructions(function_name, stream)
       \o << <<>> >>

\* _generate_armcc_assembly of a Function built with is_thumb=False,
\* alignment=0, preserve8=False, no constants and no imports
generate_armcc_assembly(function_name, target, stream) ==
    LET extensions == isa_extensions(target, stream)
    IN <<  <<"        AREA    ||.text||, CODE, READONLY">>  >>
       \o (IF armcc_fpu_spec(extensions) # <<>>
           THEN << <<"        ">> \o armcc_fpu_spec(extensions) >> ELSE <<>>)
       \o <<  <<>>,
               <<function_name, "    PROC">>,
               <<"        EXPORT  ", function_name>>  >>
       \o armcc_instructions(function_name, stream)
       \o <<  <<"        ENDP">>, <<"        END">>  >>

\* the property Function.assembly (lines 216-223) read on Function f: it
\* renders self.instructions as they are, whatever became of the build
Function_assembly(f) ==
    /\ pc[f] # "unborn"
    /\ emitted' = [emitted EXCEPT ![f] =
           IF config[f].assembly_format = "ARMCC"
           THEN generate_armcc_assembly(Function_name(f), config[f].target, instructions[f])
           ELSE generate_gas_assembly(Function_name(f), config[f].target, instructions[f])]
    /\ last_call' = Call("assembly", f, FALSE)
    /\ UNCHANGED <<active_function, active_stream, pc, config, arguments, argument,
                   instructions, stack_frame, prologue_instructions,
                   epilogue_instructions, raised, analysis>>

\* "with InstructionStream():" written outside every Function scope
InstructionStream_enter ==
    /\ active_stream = None
    /\ active_stream' = AltStream
    /\ last_call' = Call("InstructionStream.__enter__", None, FALSE)
    /\ UNCHANGED <<active_function, pc, config, arguments, argument, instructions,
                   stack_frame, prologue_instructions, epilogue_instructions, raised,
                   analysis, emitted>>

InstructionStream_exit ==
    /\ active_stream = AltStream
    /\ active_stream' = None
    /\ last_call' = Call("InstructionStream.__exit__", None, FALSE)
    /\ UNCHANGED <<active_function, pc, config, arguments, argument, instructions,
                   stack_frame, prologue_instructions, epilogue_instructions, raised,
                   analysis, emitted>>

(***************************************************************************)
(* Specifications.                                                         *)
(***************************************************************************)
Arguments == 1..MaxArguments

InitWith(sizes) ==
    /\ active_function = None
    /\ active_stream = None
    /\ pc = [f \in Functions |-> "unborn"]
    /\ config = [f \in Functions |-> NoConfig]
    /\ arguments = [f \in Functions |-> <<>>]
    /\ argument \in [Arguments -> [size : sizes, register : {<<>>}, stack_offset : {<<>>}]]
    /\ instructions = [f \in Functions |-> <<>>]
    /\ stack_frame = [f \in Functions |-> StackFrame]
    /\ prologue_instructions = [f \in Functions |-> <<>>]
    /\ epilogue_instructions = [f \in Functions |-> <<>>]
    /\ raised = [f \in Functions |-> NoException]
    /\ analysis = [f \in Functions |-> NoAnalysis]
    /\ emitted = [f \in Functions |-> <<>>]
    /\ last_call = Call("None", None, FALSE)

Config(target, format, strategy, validate) ==
    [target |-> target, abi |-> "arm_gnueabi", assembly_format |-> format,
     high_register_strategy |-> strategy, validate_stack_alignment |-> validate]

\* The scope protocol: several Functions, entered and left in any order the
\* with-statement allows.
ScopeBody == {PUSH(<<r4>>), BL("external_func")}

Init == InitWith({4})

Next ==
    \/ \E f \in Functions :
           /\ \A g \in 1..(f - 1) : pc[g] # "unborn"
           /\ Function_init(f, <<>>, Config(CortexM4, "None", "None", TRUE))
    \/ \E f \in Functions : Function_enter(f)
    \/ \E f \in Functions, instruction \in ScopeBody :
           Len(instructions[f]) < MaxInstructions /\ add_instruction(f, instruction)
    \/ \E f \in Functions, exc_type \in {NoException, UserException},
          allocation_error \in BOOLEAN :
           Function_exit(f, exc_type, allocation_error)
    \/ InstructionStream_enter
    \/ InstructionStream_exit

Spec == Init /\ [][Next]_vars

\* Stack alignment: one Function whose body moves SP and calls.
AlignBody ==
    {PUSH(<<r4>>), PUSH(<<r4, r5>>), POP(<<r4>>), STMDB(sp, <<r8>>), LDMIA(sp, <<r8>>),
     SUB(sp, sp, 4), ADD(sp, sp, 4), BL("external_func"), BLX(r0), BX(lr),
     MOV(r8, 0), VMOV(d8, d0)}

NextAlign ==
    \/ \E target \in Targets, strategy \in {"PUSH_W", "STMDB"}, validate \in BOOLEAN :
           Function_init(1, <<>>, Config(target, "GAS", strategy, validate))
    \/ Function_enter(1)
    \/ \E instruction \in AlignBody :
           Len(instructions[1]) < MaxAlignBody /\ add_instruction(1, instruction)
    \/ Function_exit(1, NoException, FALSE)

SpecAlign == Init /\ [][NextAlign]_vars

\* The stack frame: one Function whose body writes registers and returns.
FrameBody ==
    {MOV(r3, 0), MOV(r4, 0), MOV(r7, 0), MOV(r8, 0), MOV(r11, 0),
     VMOV(d8, d0), VMOV(d9, d0), SDIV(r5, r0), BX(lr)}

NextFrame ==
    \/ \E target \in Targets, format \in AssemblyFormats,
          strategy \in HighRegisterStrategies \cup {"None"} :
           Function_init(1, <<>>, Config(target, format, strategy, TRUE))
    \/ Function_enter(1)
    \/ \E instruction \in FrameBody :
           Len(instructions[1]) < MaxFrameBody /\ add_instruction(1, instruction)
    \/ Function_exit(1, NoException, FALSE)

SpecFrame == Init /\ [][NextFrame]_vars

\* Argument placement: the Argument objects have any of the sizes, and a
\* Function is constructed over the first n of them.
ArgumentSizes == {1, 4, 8, 16}

InitArgs == InitWith(ArgumentSizes)

FirstArguments(n) == [i \in 1..n |-> i]

NextArgs ==
    \/ \E n \in 0..MaxArguments, abi \in ABIs \cup {"None"} :
           Function_init(1, FirstArguments(n),
                         [Config(CortexM4, "None", "None", TRUE) EXCEPT !.abi = abi])
    \/ Function_enter(1)
    \/ Function_exit(1, NoException, FALSE)

SpecArgs == InitArgs /\ [][NextArgs]_vars

\* Shared Argument objects: two Functions constructed over the same two
\* Argument objects, in either order, as tests/arm/test_armv7m_registers.py
\* constructs its Cortex-M3 and Cortex-A9 functions.
SharingFunctions == {1, 2}
SharedSignatures == {<<1>>, <<1, 2>>, <<2, 1>>}

NextShared ==
    \/ \E f \in SharingFunctions, args \in SharedSignatures, abi \in ABIs \cup {"None"} :
           Function_init(f, args, [Config(CortexM4, "GAS", "None", TRUE) EXCEPT !.abi = abi])
    \/ \E f \in SharingFunctions : Function_enter(f)
    \/ \E f \in SharingFunctions :
           Len(instructions[f]) < MaxInstructions /\ add_instruction(f, MOV(r4, 0))
    \/ \E f \in SharingFunctions : Function_exit(f, NoException, FALSE)

SpecShared == Init /\ [][NextShared]_vars

\* Control flow: one Function whose body has labels, branches to them,
\* returns, a read of r5 and a write of r5.
FlowBody ==
    {LabelQuasiInstruction("L1"), LabelQuasiInstruction("L3"), BEQ("L3"), BNE("L1"),
     B("L3"), BX(lr), ADD(r0, r5, 0), MOV(r5, 0)}

NextFlow ==
    \/ Function_init(1, <<>>, Config(CortexA9, "GAS", "AUTO", TRUE))
    \/ Function_enter(1)
    \/ \E instruction \in FlowBody :
           Len(instructions[1]) < MaxFlowBody /\ add_instruction(1, instruction)
    \/ Function_exit(1, NoException, FALSE)

SpecFlow == Init /\ [][NextFlow]_vars

\* Register allocation: one Function over virtual registers, a Q register,
\* two D registers and a general-purpose register, numbered from 0x40 as
\* the constructors of the register classes number them.
q_virtual == QRegister(64)
d_virtual == DRegister(65)
d_second == DRegister(66)
gp_virtual == GeneralPurposeRegister(67)
d_triple == <<DRegister(68), DRegister(69), DRegister(70)>>

AllocBody ==
    {VMOV_I32(d_virtual, 0), VADDW(QRegister(4), q_virtual, d_virtual),
     VST1(<<d_virtual, d_second>>, r0), VLD1(<<d_virtual, d_second>>, r0),
     VST1(d_triple, r0),
     VMOV(d0, d_second), MOV(gp_virtual, 0), ADD(r0, gp_virtual, 0), BX(lr)}

NextAlloc ==
    \/ Function_init(1, <<>>, Config(CortexA9, "GAS", "AUTO", TRUE))
    \/ Function_enter(1)
    \/ \E instruction \in AllocBody :
           Len(instructions[1]) < MaxAllocBody /\ add_instruction(1, instruction)
    \/ Function_exit(1, NoException, FALSE)

SpecAlloc == Init /\ [][NextAlloc]_vars

\* Live physical registers: one Function with two register lists and a read
\* of the physical register d0.
d_pair == <<DRegister(68), DRegister(69)>>

PruneBody ==
    {VST1(<<d_virtual, d_second>>, r0), VMOV(d8, d0), VLD1(d_pair, r0), VST1(d_pair, r0),
     BX(lr)}

NextPrune ==
    \/ Function_init(1, <<>>, Config(CortexA9, "GAS", "AUTO", TRUE))
    \/ Function_enter(1)
    \/ \E instruction \in PruneBody :
           Len(instructions[1]) < MaxPruneBody /\ add_instruction(1, instruction)
    \/ Function_exit(1, NoException, FALSE)

SpecPrune == Init /\ [][NextPrune]_vars

\* No option left: one Function with a store of r0-r12, a read and a write
\* of a virtual general-purpose register, a register list that names one
\* virtual D register twice, and moves of a register to itself.
ExhaustBody ==
    {PUSH([n \in 1..13 |-> GeneralPurposeRegister(n - 1)]), ADD(r0, gp_virtual, 0),
     MOV(gp_virtual, 0), VST1(<<d_virtual, d_virtual>>, r0), BX(lr),
     MOV_register(r4, r4), VMOV(d0, d0)}

NextExhaust ==
    \/ Function_init(1, <<>>, Config(CortexA9, "GAS", "AUTO", TRUE))
    \/ Function_enter(1)
    \/ \E instruction \in ExhaustBody :
           Len(instructions[1]) < MaxExhaustBody /\ add_instruction(1, instruction)
    \/ Function_exit(1, NoException, FALSE)

SpecExhaust == Init /\ [][NextExhaust]_vars

\* The emitters: one Function with labels and branches in its body, whose
\* build succeeds or fails and whose assembly property is read.
EmitBody ==
    {LabelQuasiInstruction("loop_begin"), LabelQuasiInstruction("loop.begin"),
     BNE("loop_begin"), BNE("loop.begin"), PUSH(<<r4>>), BL("external_func"),
     SDIV(r5, r0), BX(lr)}

NextEmit ==
    \/ \E target \in Targets, format \in AssemblyFormats :
           Function_init(1, <<>>, Config(target, format, "AUTO", TRUE))
    \/ Function_enter(1)
    \/ \E instruction \in EmitBody :
           Len(instructions[1]) < MaxEmitBody /\ add_instruction(1, instruction)
    \/ \E exc_type \in {NoException, UserException}, allocation_error \in BOOLEAN :
           Function_exit(1, exc_type, allocation_error)
    \/ Function_assembly(1)

SpecEmit == Init /\ [][NextEmit]_vars

\* The architecture directive: the target has any set of the extensions the
\* directive depends on.
ArchExtensions == {"Div", "V7MP", "V7M", "V7", "V6K", "V6", "V5E"}

ArchTargets == {[name |-> "Target", extensions |-> E] : E \in SUBSET ArchExtensions}

ArchBody == {SDIV(r5, r0), MOV(r4, 0), BX(lr)}

NextArch ==
    \/ \E target \in ArchTargets : Function_init(1, <<>>, Config(target, "GAS", "AUTO", TRUE))
    \/ Function_enter(1)
    \/ \E instruction \in ArchBody :
           Len(instructions[1]) < MaxArchBody /\ add_instruction(1, instruction)
    \/ Function_exit(1, NoException, FALSE)
    \/ Function_assembly(1)

SpecArch == Init /\ [][NextArch]_vars

(***************************************************************************)
(* The scope protocol (specification Spec).                                *)
(***************************************************************************)
ScopeLeft(f) == pc[f] \in {"done", "failed"}

\* C1: __enter__ while another Function (or another stream) is active raises,
\* and the failed attempt changes nothing: slot, stream, every Function's
\* position, stream of instructions and stack frame stay as they were, so the
\* first Function is still the active one and can go on; the slot refers to
\* the one Function whose scope is open, and no two scopes are open.
C1_OneOpenScope ==
    /\ \A f, g \in Functions : pc[f] = "body" /\ pc[g] = "body" => f = g
    /\ \A f \in Functions : pc[f] = "body" => active_function = f /\ active_stream = f

C1_FailedEnterChangesNothing ==
    \A g \in Functions :
        /\ (pc[g] = "constructed" /\ ~can_enter /\ last_call'.op = "__enter__"
              /\ last_call'.function = g)
               => last_call'.raised
        /\ last_call' = Call("__enter__", g, TRUE)
               => UNCHANGED <<active_function, active_stream, pc, config, arguments,
                              argument, instructions, stack_frame,
                              prologue_instructions, epilogue_instructions, raised,
                              analysis, emitted>>

C1_NestedEnterRejected == []C1_OneOpenScope /\ [][C1_FailedEnterChangesNothing]_vars

\* C1's case: Function 2 was refused while Function 1 is being built
C1_Witness ==
    /\ last_call = Call("__enter__", 2, TRUE)
    /\ pc[1] = "body" /\ active_function = 1 /\ Len(instructions[1]) > 0
    /\ pc[2] = "constructed"

\* C2: once the with-scope of a Function has ended, however it ended, the
\* slot does not refer to it; right after a scope ends the slot and the
\* stream are empty, so that __enter__ of a later Function succeeds; the slot
\* is occupied only while a scope is open.
C2_SlotClearedOnEveryExit ==
    /\ \A f \in Functions : ScopeLeft(f) => active_function # f /\ active_stream # f
    /\ last_call.op = "__exit__" => active_function = None /\ can_enter
    /\ (\A f \in Functions : pc[f] # "body") => active_function = None

\* C2's case: Function 1 failed in a pass at scope exit, and Function 2 is
\* being built after it
C2_Witness ==
    /\ pc[1] = "failed" /\ raised[1] \notin {NoException, UserException}
    /\ pc[2] = "body" /\ active_function = 2

(***************************************************************************)
(* The stack-alignment validator (specification SpecAlign).                *)
(***************************************************************************)
AlignmentErrorRaised(f) ==
    pc[f] = "failed" /\ raised[f].type = "ValueError: Stack is not 8-byte aligned"

\* the change of the SP offset the claim gives for each instruction
SpOffsetChange(instruction) ==
    LET name == instruction.name
        ops == instruction.operands
    IN CASE name \in {"PUSH", "PUSH.W"} -> 4 * Len(ops[1].registers)
         [] name \in {"POP", "POP.W"} -> 0 - 4 * Len(ops[1].registers)
         [] name \in {"STMDB", "LDMIA"} ->
                IF instruction.writeback /\ ops[1].register = <<sp>>
                THEN IF name = "STMDB" THEN 4 * Len(ops[2].registers)
                     ELSE 0 - 4 * Len(ops[2].registers)
                ELSE 0
         [] name \in {"SUB", "ADD"} ->
                IF Len(ops) = 3 /\ ops[1].register = <<sp>> /\ ops[2].register = <<sp>>
                   /\ ops[3].immediate # <<>>
                THEN IF name = "SUB" THEN ops[3].immediate[1] ELSE 0 - ops[3].immediate[1]
                ELSE 0
         [] OTHER -> 0

RECURSIVE SpOffsetAfter(_, _)
SpOffsetAfter(stream, n) ==
    IF n = 0 THEN 0 ELSE SpOffsetAfter(stream, n - 1) + SpOffsetChange(stream[n])

\* the final stream of f without the prologue that follows its ENTRY label
WithoutPrologue(f) ==
    LET stream == instructions[f]
    IN <<stream[1]>> \o SubSeq(stream, Len(prologue_instructions[f]) + 2, Len(stream))

MisalignedCall(f) ==
    LET stream == WithoutPrologue(f)
    IN \E i \in DOMAIN stream :
           stream[i].name \in {"BL", "BLX"} /\ SpOffsetAfter(stream, i - 1) % 8 # 0

Validated(f) ==
    "V7M" \in config[f].target.extensions /\ config[f].validate_stack_alignment

\* C3: on a V7M target with validation enabled the build fails with the
\* stack-alignment error exactly when, in the final stream taken without its
\* prologue, some BL or BLX is reached at an SP offset that is no multiple of
\* 8; so a build that completes has every BL/BLX at an offset that is one.
C3_AlignmentErrorIffMisalignedCall ==
    \A f \in Functions :
        ScopeLeft(f) /\ Validated(f) =>
            /\ AlignmentErrorRaised(f) <=> MisalignedCall(f)
            /\ pc[f] = "done" => ~MisalignedCall(f)

\* C3's case: a build with a prologue to skip fails at a call that follows a
\* pop, and is reported at a negative offset
C3_Witness ==
    /\ Validated(1) /\ AlignmentErrorRaised(1)
    /\ Len(prologue_instructions[1]) > 0
    /\ raised[1].offset < 0

\* C4: without the V7M extension, or with validate_stack_alignment False, no
\* build fails with the stack-alignment error, whatever its calls and SP
\* changes are: the scope ends with the build completed.
C4_ValidatorOffIsNoOp ==
    \A f \in Functions :
        ScopeLeft(f) /\ ~Validated(f) => pc[f] = "done" /\ raised[f] = NoException

\* C4's case: a completed build on a V7M target, validation disabled, with a
\* misaligned call, and one on a target without V7M
C4_Witness ==
    /\ pc[1] = "done" /\ MisalignedCall(1)
    /\ \/ "V7M" \in config[1].target.extensions /\ ~config[1].validate_stack_alignment
       \/ "V7M" \notin config[1].target.extensions /\ config[1].validate_stack_alignment

(***************************************************************************)
(* Argument placement (specification SpecArgs).                            *)
(***************************************************************************)
Constructed(f) == pc[f] # "unborn"

SizeOf(f, i) == argument[arguments[f][i]].size

LocationOf(f, i) ==
    [register |-> argument[arguments[f][i]].register,
     stack_offset |-> argument[arguments[f][i]].stack_offset]

\* The EABI table: the next core register number and the next stacked
\* argument address after the first n arguments of f.
RECURSIVE EabiAfter(_, _)
EabiAfter(f, n) ==
    IF n = 0 THEN [ncrn |-> 0, nsaa |-> 0]
    ELSE LET before == EabiAfter(f, n - 1)
             pair == 2 * ((before.ncrn + 1) \div 2)
             slot == 8 * ((before.nsaa + 7) \div 8)
         IN IF SizeOf(f, n) <= 4
            THEN IF before.ncrn <= 3 THEN [before EXCEPT !.ncrn = before.ncrn + 1]
                 ELSE [before EXCEPT !.nsaa = before.nsaa + 4]
            ELSE IF pair + 1 <= 3 THEN [before EXCEPT !.ncrn = pair + 2]
                 ELSE [ncrn |-> 4, nsaa |-> slot + 8]

EabiLocation(f, n) ==
    LET before == EabiAfter(f, n - 1)
        pair == 2 * ((before.ncrn + 1) \div 2)
        slot == 8 * ((before.nsaa + 7) \div 8)
    IN IF SizeOf(f, n) <= 4
       THEN IF before.ncrn <= 3
            THEN [register |-> <<GeneralPurposeRegister(before.ncrn)>>, stack_offset |-> <<>>]
            ELSE [register |-> <<>>, stack_offset |-> <<before.nsaa>>]
       ELSE IF pair + 1 <= 3
            THEN [register |-> <<GeneralPurposeRegister(pair), GeneralPurposeRegister(pair + 1)>>,
                  stack_offset |-> <<>>]
            ELSE [register |-> <<>>, stack_offset |-> <<slot>>]

SizesAre(f, sizes) ==
    /\ Len(arguments[f]) = Len(sizes)
    /\ \A i \in DOMAIN sizes : SizeOf(f, i) = sizes[i]

\* C5: a Function constructed under arm_gnueabi or arm_gnueabihf over
\* arguments of sizes <= 4 and 8 has every argument where the EABI table puts
\* it: in order, a small argument in the next of r0..r3 or else the next 4-byte
\* stack slot, an 8-byte argument in the pair (r0,r1) or (r2,r3) at the index
\* rounded up to even or else an 8-aligned 8-byte stack slot, a skipped
\* register never used later; (u32, u64, u32) gets r0, (r2,r3), stack offset 0.
C5_EabiPlacement ==
    \A f \in Functions :
        Constructed(f) =>
            /\ config[f].abi \in {"arm_gnueabi", "arm_gnueabihf"}
            /\ \A i \in DOMAIN arguments[f] :
                   SizeOf(f, i) \in {1, 4, 8} /\ LocationOf(f, i) = EabiLocation(f, i)
            /\ SizesAre(f, <<4, 8, 4>>) =>
                   /\ LocationOf(f, 1) = [register |-> <<r0>>, stack_offset |-> <<>>]
                   /\ LocationOf(f, 2) = [register |-> <<r2, r3>>, stack_offset |-> <<>>]
                   /\ LocationOf(f, 3) = [register |-> <<>>, stack_offset |-> <<0>>]

\* C5's case: (u32, u64, u32) constructed under arm_gnueabihf with r1 skipped
C5_Witness ==
    /\ Constructed(1) /\ SizesAre(1, <<4, 8, 4>>)
    /\ config[1].abi = "arm_gnueabihf"
    /\ last_call = Call("__init__", 1, FALSE)
    /\ \A i \in DOMAIN arguments[1] : r1 \notin Range(LocationOf(1, i).register)

SlotSize(f, i) == IF SizeOf(f, i) <= 4 THEN 4 ELSE 8

\* C6: after construction every argument has exactly one location (a
\* register, a pair, or a stack offset, never both and never none); no
\* register belongs to two arguments; the stack slots of different arguments
\* do not overlap and their offsets increase in argument order; the offset of
\* an 8-byte stack argument is a multiple of 8.
C6_OneLocationEach ==
    \A f \in Functions :
        Constructed(f) =>
            \A i \in DOMAIN arguments[f] :
                LET loc == LocationOf(f, i)
                IN /\ (loc.register = <<>>) # (loc.stack_offset = <<>>)
                   /\ Len(loc.register) = (IF loc.register = <<>> THEN 0
                                           ELSE IF SizeOf(f, i) = 8 THEN 2 ELSE 1)
                   /\ loc.register # <<>> =>
                          Cardinality(Range(loc.register)) = Len(loc.register)
                   /\ loc.stack_offset # <<>> /\ SizeOf(f, i) = 8 =>
                          loc.stack_offset[1] % 8 = 0
                   /\ \A j \in DOMAIN arguments[f] :
                          i < j =>
                              LET other == LocationOf(f, j)
                              IN /\ Range(loc.register) \cap Range(other.register) = {}
                                 /\ loc.stack_offset # <<>> /\ other.stack_offset # <<>> =>
                                        loc.stack_offset[1] + SlotSize(f, i)
                                            <= other.stack_offset[1]

\* C6's case: an 8-byte argument on the stack after a 4-byte one, 4 bytes of
\* padding between their slots
C6_Witness ==
    /\ Constructed(1) /\ Len(arguments[1]) = MaxArguments
    /\ \E i \in DOMAIN arguments[1] :
           /\ i > 1 /\ SizeOf(1, i) = 8 /\ SizeOf(1, i - 1) <= 4
           /\ LocationOf(1, i - 1).stack_offset # <<>>
           /\ LocationOf(1, i).stack_offset # <<>>
           /\ LocationOf(1, i).stack_offset[1] = LocationOf(1, i - 1).stack_offset[1] + 8

(***************************************************************************)
(* Prologue and epilogue (specification SpecFrame).                        *)
(***************************************************************************)
Built(f) == pc[f] = "done"

IsV7M(f) == "V7M" \in config[f].target.extensions

\* the register list a save or restore instruction names
SavedList(instruction) ==
    IF instruction.name \in {"STMDB", "LDMIA"} THEN instruction.operands[2].registers
    ELSE instruction.operands[1].registers

OnStackPointer(instruction) ==
    instruction.name \in {"STMDB", "LDMIA"} =>
        instruction.writeback /\ instruction.operands[1].register = <<sp>>

RestoreOf(name) ==
    CASE name = "VPUSH" -> "VPOP"
      [] name = "PUSH.W" -> "POP.W"
      [] name = "STMDB" -> "LDMIA"
      [] name = "PUSH" -> "POP"
      [] OTHER -> "none"

BytesOf(instruction) ==
    IF instruction.name \in {"VPUSH", "VPOP"} THEN 8 * Len(SavedList(instruction))
    ELSE 4 * Len(SavedList(instruction))

RECURSIVE TotalBytes(_)
TotalBytes(stream) ==
    IF stream = <<>> THEN 0 ELSE BytesOf(Head(stream)) + TotalBytes(Tail(stream))

Preserved(f) ==
    Range(stack_frame[f].general_purpose_registers) \cup Range(stack_frame[f].d_registers)

SavedBy(stream) == UNION {Range(SavedList(stream[k])) : k \in DOMAIN stream}

\* C7: the epilogue is the exact reverse of the prologue: its k-th instruction
\* restores the register list, padding included, that the k-th-from-last
\* prologue instruction saved (VPOP for VPUSH, POP.W for PUSH.W, LDMIA sp! for
\* STMDB sp!, POP for PUSH); so prologue then epilogue moves SP by zero bytes
\* and every saved register is restored.
C7_EpilogueReversesPrologue ==
    \A f \in Functions :
        Built(f) =>
            LET prologue == prologue_instructions[f]
                epilogue == epilogue_instructions[f]
                n == Len(prologue)
            IN /\ Len(epilogue) = n
               /\ \A k \in 1..n :
                      /\ epilogue[k].name = RestoreOf(prologue[n + 1 - k].name)
                      /\ SavedList(epilogue[k]) = SavedList(prologue[n + 1 - k])
                      /\ OnStackPointer(epilogue[k]) /\ OnStackPointer(prologue[n + 1 - k])
               /\ TotalBytes(prologue) - TotalBytes(epilogue) = 0
               /\ Preserved(f) \subseteq SavedBy(prologue)
               /\ SavedBy(epilogue) = SavedBy(prologue)

\* C7's case: low, high and D registers are preserved on a V7M target under
\* the ARMCC dialect, three instructions each way, one padding register
C7_Witness ==
    /\ Built(1) /\ IsV7M(1)
    /\ config[1].assembly_format = "ARMCC" /\ config[1].high_register_strategy = "AUTO"
    /\ Len(prologue_instructions[1]) = 3
    /\ epilogue_instructions[1][2].name = "LDMIA"
    /\ r3 \in SavedBy(epilogue_instructions[1])

TimesSaved(stream, reg) == Cardinality({k \in DOMAIN stream : reg \in Range(SavedList(stream[k]))})

\* C8: on a V7M target the plain PUSH and POP of prologue and epilogue list
\* only r0-r7 (the preserved low registers and at most one padding register),
\* a preserved register r8-r15 is only in the PUSH.W/POP.W or STMDB/LDMIA
\* instruction, and every preserved register is in exactly one prologue and
\* exactly one epilogue instruction.
C8_Armv7mRegisterSplit ==
    \A f \in Functions :
        Built(f) /\ IsV7M(f) =>
            \A stream \in {prologue_instructions[f], epilogue_instructions[f]} :
                /\ \A k \in DOMAIN stream :
                       /\ stream[k].name \in {"PUSH", "POP"} =>
                              /\ \A reg \in Range(SavedList(stream[k])) :
                                     reg.type = "GP" /\ reg.number \in 0..7
                              /\ Cardinality(Range(SavedList(stream[k])) \ Preserved(f)) <= 1
                       /\ \A reg \in Range(SavedList(stream[k])) :
                              reg.type = "GP" /\ reg.number \in 8..15 =>
                                  stream[k].name \in {"PUSH.W", "POP.W", "STMDB", "LDMIA"}
                /\ \A reg \in Preserved(f) : TimesSaved(stream, reg) = 1

\* C8's case: r7 and r8 are both preserved on a V7M target, r7 saved by PUSH
\* with the padding register and r8 by the wide instruction
C8_Witness ==
    /\ Built(1) /\ IsV7M(1)
    /\ {r7, r8} \subseteq Preserved(1)
    /\ Len(prologue_instructions[1]) = 2
    /\ SavedList(prologue_instructions[1][1]) = <<r3, r7>>
    /\ SavedList(epilogue_instructions[1][1]) = <<r8>>

ExplicitStrategy(format) == IF format = "GAS" THEN "PUSH_W" ELSE "STMDB"

C9_AutoIsExplicit ==
    \A f \in Functions :
        /\ Constructed(f) => config[f].high_register_strategy \in HighRegisterStrategies
        /\ Built(f) /\ config[f].high_register_strategy = "AUTO" =>
               LET explicit == {[config[f] EXCEPT !.high_register_strategy =
                                    ExplicitStrategy(config[f].assembly_format)]}
               IN /\ prologue_instructions[f] = generate_prologue(stack_frame[f], explicit)
                  /\ epilogue_instructions[f] = generate_epilogue(stack_frame[f], explicit)

C9_NoStrategyIsAuto ==
    \A target \in Targets, format \in AssemblyFormats :
        Function_init(1, <<>>, Config(target, format, "None", TRUE)) =>
            config'[1].high_register_strategy = "AUTO"

\* C9: with the strategy AUTO the prologue and the epilogue are, instruction
\* for instruction, those of the explicit strategy PUSH_W under GAS and of the
\* explicit strategy STMDB under ARMCC; a Function constructed without a
\* strategy has the strategy AUTO.
C9_AutoStrategy == []C9_AutoIsExplicit /\ [][C9_NoStrategyIsAuto]_vars

\* C9's case: AUTO under ARMCC on a V7M target saves a high register by STMDB
C9_Witness ==
    /\ Built(1) /\ IsV7M(1)
    /\ config[1].high_register_strategy = "AUTO" /\ config[1].assembly_format = "ARMCC"
    /\ \E k \in DOMAIN prologue_instructions[1] : prologue_instructions[1][k].name = "STMDB"
    /\ \E k \in DOMAIN epilogue_instructions[1] : epilogue_instructions[1][k].name = "LDMIA"

\* C10: the prologue pushes a multiple of 8 bytes, for every mix of preserved
\* low, high and D registers on V7M and other targets, and the epilogue pops
\* the same number of bytes.
C10_PrologueBytesMultipleOf8 ==
    \A f \in Functions :
        Built(f) =>
            /\ TotalBytes(prologue_instructions[f]) % 8 = 0
            /\ TotalBytes(epilogue_instructions[f]) = TotalBytes(prologue_instructions[f])

(***************************************************************************)
(* Instruction emission (specification SpecFrame).                         *)
(***************************************************************************)
IsPrefix(s, t) == Len(s) <= Len(t) /\ SubSeq(t, 1, Len(s)) = s

C15_AddInstructionStep ==
    \A instruction \in FrameBody :
        add_instruction(1, instruction) =>
            IF \E extension \in instruction.isa_extensions :
                   extension \notin config[1].target.extensions
            THEN /\ last_call'.raised
                 /\ UNCHANGED <<instructions, stack_frame>>
            ELSE /\ ~last_call'.raised
                 /\ instructions'[1] = instructions[1] \o <<instruction>>
                 /\ IsPrefix(stack_frame[1].general_purpose_registers,
                             stack_frame'[1].general_purpose_registers)
                 /\ IsPrefix(stack_frame[1].d_registers, stack_frame'[1].d_registers)

\* C15: appending an instruction that needs an ISA extension the target does
\* not have raises and changes nothing, neither the stream nor the preserve
\* sets of the stack frame; an accepted instruction is appended at the end of
\* the stream, the earlier instructions staying as they were and in order.
C15_RejectedInstructionChangesNothing == [][C15_AddInstructionStep]_vars

\* C15's case: SDIV was rejected on a target without Div, after an accepted
\* instruction that put a register into the preserve set
C15_Witness ==
    /\ last_call = Call("add_instruction", 1, TRUE)
    /\ "Div" \notin config[1].target.extensions
    /\ Len(instructions[1]) > 0
    /\ stack_frame[1].general_purpose_registers # <<>>
    /\ \A i \in DOMAIN instructions[1] : instructions[1][i].name # "SDIV"

(***************************************************************************)
(* The emitters (specifications SpecEmit and SpecArch).                    *)
(***************************************************************************)
AssemblyRead(f) == last_call = Call("assembly", f, FALSE)

\* C16: when a step of the build failed (an instruction the target does not
\* support, a register-allocation failure, a stack-alignment error), the
\* Function yields no assembly text for the partly processed stream: reading
\* function.assembly of a failed build does not return.
C16_NoAssemblyOfFailedBuild ==
    \A f \in Functions : pc[f] = "failed" => ~AssemblyRead(f)

\* the strings of the texts that have a '.' in them
Dotted == {".", "loop.begin", ".global ", ".type "}

contains_dot(text) == \E i \in DOMAIN text : text[i] \in Dotted

\* the label definitions and the branch targets of an ARMCC text
ArmccLabelDefinitions(f, text) ==
    {text[i] : i \in {j \in DOMAIN text :
        Len(text[j]) = 3 /\ text[j][1] = Function_name(f) /\ text[j][2] = "_"}}

ArmccBranchTargets(f, text) ==
    {SubSeq(text[i], 4, 6) : i \in {j \in DOMAIN text :
        Len(text[j]) = 6 /\ text[j][1] = "        " /\ text[j][5] = "_"}}

\* C17 (the ARMCC half): in the ARMCC text of a built Function every label
\* definition and every branch target is a string without '.'.
C17_ArmccLabelsHaveNoDot ==
    \A f \in Functions :
        pc[f] = "done" /\ config[f].assembly_format = "ARMCC" /\ AssemblyRead(f) =>
            \A text \in ArmccLabelDefinitions(f, emitted[f])
                         \cup ArmccBranchTargets(f, emitted[f]) : ~contains_dot(text)

\* the rules of the architecture directive in their order, and the directive
\* of the first rule whose extension is present
ArchRules ==
    << <<"Div", ".cpu cortex-a15">>, <<"V7MP", ".cpu cortex-a9">>,
       <<"V7M", ".arch armv7-m">>, <<"V7", ".arch armv7-a">>,
       <<"V6K", ".arch armv6zk">>, <<"V6", ".arch armv6">>,
       <<"V5E", ".arch armv5te">> >>

FirstMatch(extensions) ==
    LET hits == {i \in DOMAIN ArchRules : ArchRules[i][1] \in extensions}
    IN IF hits = {} THEN ".arch armv5t"
       ELSE ArchRules[CHOOSE i \in hits : \A j \in hits : i <= j][2]

ArchDirectives == {ArchRules[i][2] : i \in DOMAIN ArchRules} \cup {".arch armv5t"}

ArchLines(text) ==
    {i \in DOMAIN text : \E j \in DOMAIN text[i] : text[i][j] \in ArchDirectives}

\* C18: the GAS text has exactly one architecture directive, the one of the
\* first rule that matches the ISA extensions of the Function, in the order
\* Div, V7MP, V7M, V7, V6K, V6, V5E, and .arch armv5t when none matches; a
\* target with V7M and neither Div nor V7MP gets .arch armv7-m.
C18_ArchDirectiveByFirstRule ==
    \A f \in Functions :
        config[f].assembly_format = "GAS" /\ AssemblyRead(f) =>
            LET extensions == isa_extensions(config[f].target, instructions[f])
                target_extensions == config[f].target.extensions
            IN /\ Cardinality(ArchLines(emitted[f])) = 1
               /\ \A i \in ArchLines(emitted[f]) :
                      /\ emitted[f][i] = <<"\t", FirstMatch(extensions)>>
                      /\ ("V7M" \in target_extensions /\ "Div" \notin target_extensions
                            /\ "V7MP" \notin target_extensions)
                             => emitted[f][i] = <<"\t", ".arch armv7-m">>

C18_Witness ==
    /\ AssemblyRead(1) /\ pc[1] = "done"
    /\ config[1].target.extensions = {"V7M", "V6", "V5E"}
    /\ \E i \in DOMAIN emitted[1] : emitted[1][i] = <<"\t", ".arch armv7-m">>

(***************************************************************************)
(* Liveness (specification SpecFlow).                                      *)
(***************************************************************************)
Analysed(f) == ScopeLeft(f) /\ analysis[f].stream # <<>>

\* the instruction a label leads to: the first one after it
RECURSIVE InstructionFrom(_, _)
InstructionFrom(stream, i) ==
    IF i > Len(stream) THEN 0
    ELSE IF is_Instruction(stream[i]) THEN i
    ELSE InstructionFrom(stream, i + 1)

\* the successors of instruction i: the next instruction unless i is a
\* return or an unconditional branch, and the instruction after the target
\* label when i is a branch
Successors(stream, i) ==
    ((IF \/ stream[i].class = "BranchExchangeInstruction"
         \/ (is_BranchInstruction(stream[i]) /\ ~is_conditional(stream[i]))
      THEN {}
      ELSE {InstructionFrom(stream, i + 1)})
     \cup (IF is_BranchInstruction(stream[i])
           THEN {InstructionFrom(stream, get_label_table(stream)[stream[i].operands[1].label])}
           ELSE {})) \ {0}

\* C19: when the liveness pass has finished, the live sets satisfy the
\* dataflow equations on every edge: a register live at a successor of an
\* instruction, and not written by the instruction, is live at the
\* instruction; so the live set of a branch contains that of its target.
C19_LiveSetsAreFixpoint ==
    \A f \in Functions :
        Analysed(f) =>
            LET stream == analysis[f].stream
                live == analysis[f].live_registers
            IN \A i \in DOMAIN stream :
                   is_Instruction(stream[i]) =>
                       \A s \in Successors(stream, i) :
                           live[s] \ Range(get_output_registers_list(stream[i])) \subseteq live[i]

Branches(stream) == {i \in DOMAIN stream : is_BranchInstruction(stream[i])}

TimesWalked(walks, i) == Cardinality({k \in DOMAIN walks : walks[k] = i})

\* C20: determine_live_registers terminates on every stream: no branch
\* starts more than one backward walk, so the walks of a run are at most
\* the exit points and the branches, each a scan from its start down to the
\* first instruction.
C20_LivenessTerminates ==
    \A f \in Functions :
        Analysed(f) =>
            LET stream == analysis[f].stream
                walks == analysis[f].walks
            IN /\ ~analysis[f].overflow
               /\ \A i \in Branches(stream) : TimesWalked(walks, i) <= 1
               /\ \A k \in DOMAIN walks : walks[k] \in Branches(stream) \cup find_exit_points(stream)
               /\ Len(walks) <= Cardinality(Branches(stream)) + Cardinality(find_exit_points(stream))

\* a loop: a branch back to a label above it was walked from
C20_Witness ==
    /\ Analysed(1)
    /\ \E i \in Branches(analysis[1].stream) :
           /\ get_label_table(analysis[1].stream)[analysis[1].stream[i].operands[1].label] < i
           /\ TimesWalked(analysis[1].walks, i) = 1
    /\ Cardinality(find_exit_points(analysis[1].stream)) >= 2

(***************************************************************************)
(* Register allocation (specification SpecAlloc).                          *)
(***************************************************************************)
\* C12: after register allocation has succeeded, two virtual registers
\* joined by an edge of the conflict graph are bound to physical registers
\* whose bitboards share no bit.
C12_ConflictingRegistersDisjoint ==
    \A f \in Functions :
        Built(f) =>
            LET allocation == analysis[f].register_allocation
                conflicts == analysis[f].conflicting_registers
            IN \A u \in DOMAIN allocation :
                   \A v \in conflicts[u] \cap DOMAIN allocation :
                       bitboard(allocation[u]) \cap bitboard(allocation[v]) = {}

\* the multi-register load/store instructions of the stream allocation ran on
GroupInstructions(f) ==
    {i \in DOMAIN analysis[f].stream :
        /\ is_Instruction(analysis[f].stream[i])
        /\ is_group(analysis[f].stream[i])}

EnclosingRegisters(reg) ==
    CASE reg.type = "S" -> {DRegister(reg.number \div 2)}
      [] reg.type = "Q" -> {DRegister(2 * reg.number), DRegister(2 * reg.number + 1)}
      [] OTHER -> {reg}

\* the callee-saved registers the instructions of a stream write
WrittenCalleeSaved(stream) ==
    UNION {EnclosingRegisters(reg) \cap callee_save_registers :
              reg \in UNION {Range(stream[i].outputs) :
                                i \in {k \in DOMAIN stream : is_Instruction(stream[k])}}}

\* C11: when a build completes, every callee-saved register written by an
\* instruction of the function (a general-purpose register, or a D register
\* enclosing a written S, D or Q register, on the registers after
\* allocation) is in the preserve set of the stack frame, is saved by the
\* prologue and is restored by the epilogue; and the preserve sets hold
\* only callee-saved registers, each at most once.
C11_WrittenCalleeSavedPreserved ==
    \A f \in Functions :
        /\ Preserved(f) \subseteq callee_save_registers
        /\ \A list \in {stack_frame[f].general_purpose_registers, stack_frame[f].d_registers} :
               \A i, j \in DOMAIN list : list[i] = list[j] => i = j
        /\ Built(f) =>
               /\ WrittenCalleeSaved(instructions[f]) \subseteq Preserved(f)
               /\ WrittenCalleeSaved(instructions[f]) \subseteq SavedBy(prologue_instructions[f])
               /\ WrittenCalleeSaved(instructions[f]) \subseteq SavedBy(epilogue_instructions[f])

\* C14: after a build, in which allocate_registers ended without error, no
\* instruction of the stream has a virtual register among its input or
\* output registers.
C14_NoVirtualRegisterLeft ==
    \A f \in Functions :
        Built(f) =>
            \A i \in DOMAIN instructions[f] :
                is_Instruction(instructions[f][i]) =>
                    \A reg \in Range(get_input_registers_list(instructions[f][i]))
                                  \cup Range(get_output_registers_list(instructions[f][i])) :
                        ~is_virtual(reg)

(***************************************************************************)
(* Basic blocks (specification SpecFlow).                                  *)
(***************************************************************************)
\* the live set of the instruction a branch leads to; empty when no
\* instruction follows the label
LiveAtTarget(stream, live, i) ==
    LET target == InstructionFrom(stream, get_label_table(stream)[stream[i].operands[1].label])
    IN IF target = 0 THEN {} ELSE live[target]

\* C21: an unconditional branch blocks fall-through in the backward walk:
\* its live set holds only registers live at its target, none that are
\* live at the instruction that follows it in the stream.
C21_UnconditionalBranchBlocksFallThrough ==
    \A f \in Functions :
        Analysed(f) =>
            LET stream == analysis[f].stream
                live == analysis[f].live_registers
            IN \A i \in Branches(stream) :
                   ~is_conditional(stream[i]) =>
                       live[i] \subseteq LiveAtTarget(stream, live, i)

(***************************************************************************)
(* Live physical registers (specification SpecPrune).                      *)
(***************************************************************************)
\* C22: after allocation no virtual register is bound to a physical
\* register whose bitboard overlaps a physical register of the same bank
\* that is live at an instruction where the virtual register is live.
C22_NoOverlapWithLivePhysical ==
    \A f \in Functions :
        Built(f) =>
            LET stream == analysis[f].stream
                live == analysis[f].live_registers
                allocation == analysis[f].register_allocation
            IN \A i \in DOMAIN stream :
                   is_Instruction(stream[i]) =>
                       \A v \in virtual_live_registers(live, i) :
                           \A q \in physical_live_registers(live, i) :
                               v.number \in DOMAIN allocation /\ regtype(q) = regtype(v)
                                   => bitboard(allocation[v.number]) \cap bitboard(q) = {}

(***************************************************************************)
(* Group options (specification SpecAlloc).                                *)
(***************************************************************************)
\* the multi-register instructions of a stream whose register list has the
\* ids of key
InstructionsOf(stream, key) ==
    {i \in Groups(stream) : register_id_list(stream[i].operands[1].registers) = key}

\* the options common to the enumerations of every instruction of a tuple
OwnOptions(f, key) ==
    LET stream == analysis[f].stream
        singles == single_options(stream, analysis[f].live_registers, config[f].target)
        enumerated(i) == Range(group_options(stream[i].operands[1].registers, singles))
    IN {option \in UNION {enumerated(i) : i \in InstructionsOf(stream, key)} :
           \A i \in InstructionsOf(stream, key) : option \in enumerated(i)}

\* C23: the option list that constraint collection stores for a tuple of
\* virtual registers is the intersection of the options enumerated for the
\* instructions with that tuple, and every stored option has one bitboard
\* for each member of the tuple.
C23_StoredOptionsAreTheTuplesOwn ==
    \A f \in Functions :
        \A key \in DOMAIN analysis[f].constraint_options :
            Len(key) > 1 =>
                /\ Range(analysis[f].constraint_options[key]) = OwnOptions(f, key)
                /\ \A option \in Range(analysis[f].constraint_options[key]) :
                       Len(option) = Len(key)

(***************************************************************************)
(* No option left (specification SpecExhaust).                             *)
(***************************************************************************)
\* a virtual register, or a tuple of them, that was not bound and whose
\* option list is empty
NoOptionLeft(f) ==
    \E key \in DOMAIN analysis[f].allocation_options :
        /\ analysis[f].allocation_options[key] = <<>>
        /\ \E n \in DOMAIN key : key[n] \notin DOMAIN analysis[f].register_allocation

\* C24: when a virtual register or a tuple is left with no allocation
\* option, the build fails with RegisterAllocationError.
C24_NoOptionRaisesRegisterAllocationError ==
    \A f \in Functions :
        ScopeLeft(f) /\ NoOptionLeft(f) => raised[f] = RegisterAllocationError

(***************************************************************************)
(* Parameters offset (specification SpecFrame).                            *)
(***************************************************************************)
\* C25: the parameters offset of the stack frame, the base of every load of
\* a stack argument, is the number of bytes the instructions of the
\* generated prologue push.
C25_ParametersOffsetIsPrologueBytes ==
    \A f \in Functions :
        Built(f) => get_parameters_offset(stack_frame[f]) = TotalBytes(prologue_instructions[f])

(***************************************************************************)
(* Placement of prologue and epilogue (specification SpecFlow).            *)
(***************************************************************************)
EntryLabels(stream) ==
    {k \in DOMAIN stream : is_LabelQuasiInstruction(stream[k]) /\ stream[k].name = "ENTRY"}

Returns(stream) == {k \in DOMAIN stream : stream[k].class = "BranchExchangeInstruction"}

\* the positions of the final stream that the prologue takes after ENTRY
\* and the epilogue takes before each return
ProloguePositions(f) ==
    UNION {(e + 1)..(e + Len(prologue_instructions[f])) : e \in EntryLabels(instructions[f])}
EpiloguePositions(f) ==
    UNION {(k - Len(epilogue_instructions[f]))..(k - 1) : k \in Returns(instructions[f])}

\* the stream without the instructions at some positions, from position k on
RECURSIVE Without(_, _, _)
Without(stream, positions, k) ==
    IF k > Len(stream) THEN <<>>
    ELSE (IF k \in positions THEN <<>> ELSE <<stream[k]>>) \o Without(stream, positions, k + 1)

\* C26: in the stream of a build the whole prologue stands directly after
\* the ENTRY label and the whole epilogue directly before every BX, and
\* nowhere else: without those positions the stream is the stream of before,
\* every other instruction in its place.
C26_PrologueAfterEntryEpilogueBeforeReturns ==
    \A f \in Functions :
        Built(f) =>
            LET final == instructions[f]
                prologue == prologue_instructions[f]
                epilogue == epilogue_instructions[f]
            IN /\ Cardinality(EntryLabels(final)) = 1
               /\ \A e \in EntryLabels(final) :
                      /\ e + Len(prologue) <= Len(final)
                      /\ SubSeq(final, e + 1, e + Len(prologue)) = prologue
               /\ \A k \in Returns(final) :
                      /\ k - Len(epilogue) >= 1
                      /\ SubSeq(final, k - Len(epilogue), k - 1) = epilogue
               /\ ProloguePositions(f) \cap EpiloguePositions(f) = {}
               /\ Without(final, ProloguePositions(f) \cup EpiloguePositions(f), 1)
                      = analysis[f].stream

\* a build with a prologue, two returns, and a branch
C26_Witness ==
    /\ Built(1)
    /\ prologue_instructions[1] # <<>>
    /\ epilogue_instructions[1] # <<>>
    /\ Cardinality(Returns(instructions[1])) = 2
    /\ Branches(instructions[1]) # {}

(***************************************************************************)
(* The peephole pass (specification SpecExhaust).                          *)
(***************************************************************************)
\* a move of a register to the same register
IsSelfMove(instruction) ==
    /\ instruction.class \in {"MovInstruction", "VfpNeonMovInstruction"}
    /\ instruction.operands[2].register # <<>>
    /\ instruction.operands[1].register = instruction.operands[2].register

\* C27: the final stream of a build has no move, general-purpose or
\* VFP/NEON, whose source and destination are the same register.
C27_NoSelfMoveLeft ==
    \A f \in Functions :
        Built(f) => \A k \in DOMAIN instructions[f] : ~IsSelfMove(instructions[f][k])

(***************************************************************************)
(* The scenario "misaligned BL detected" (specification SpecAlign).        *)
(***************************************************************************)
\* the instructions the user emitted, as __exit__ analysed them
UserCode(f) == SelectSeq(analysis[f].stream, is_Instruction)

\* target CortexM4, generated prologue PUSH {r3, r4}, user code PUSH {r4}
\* followed by BL external, validation enabled, __exit__ has run
MisalignedCallScenario(f) ==
    /\ pc[f] \in {"done", "failed"}
    /\ config[f].target = CortexM4
    /\ config[f].validate_stack_alignment
    /\ prologue_instructions[f] = <<PUSH(<<r3, r4>>)>>
    /\ Len(UserCode(f)) >= 2
    /\ UserCode(f)[1] = PUSH(<<r4>>)
    /\ UserCode(f)[2] = BL("external_func")

ObservedState(f) ==
    [locations |-> [i \in DOMAIN arguments[f] |->
                       [register |-> argument[arguments[f][i]].register,
                        stack_offset |-> argument[arguments[f][i]].stack_offset]],
     stack_frame |-> stack_frame[f],
     allocator |-> analysis[f],
     instructions |-> instructions[f]]

\* C29: the construction or the build of one Function leaves the argument
\* locations, stack frame, allocator state and instruction stream of every
\* other Function as they were, also when both were given the same Argument
\* objects.
C29_OtherFunctionsUnaffected ==
    [][\A f \in Functions :
           (pc[f] # "unborn" /\ last_call'.function # f)
               => ObservedState(f)' = ObservedState(f)]_vars

(***************************************************************************)
(* The generated prologue and epilogues before the validator               *)
(* (specification SpecAlign).                                              *)
(***************************************************************************)
\* PUSH, POP, VPUSH, VPOP, STM or LDM with SP as the written-back base,
\* ADD or SUB with SP as the destination: the instruction writes SP
ModifiesSP(instruction) == sp \in Range(get_output_registers_list(instruction))

IsStackAlignmentError(exception) == exception.type = StackAlignmentError("", 0).type

\* C30: a build whose user instructions do not modify SP is never failed
\* by the V7M validator, whatever registers it preserves, whichever
\* high-register strategy it uses and however many returns and calls it has.
C30_GeneratedCodeNeverFailsValidation ==
    \A f \in Functions :
        (/\ pc[f] \in {"done", "failed"}
         /\ \A k \in DOMAIN UserCode(f) : ~ModifiesSP(UserCode(f)[k]))
            => ~IsStackAlignmentError(raised[f])

==============================================================================
